---- MODULE Spec2Model ----
(***************************************************************************)
(* A model of the CODEOWNERS parser and matcher of hmarr/codeowners.       *)
(*                                                                         *)
(* Strings are sequences of one-character strings.  The line parsers       *)
(* parseRule and parseSection are pure functions of a line and are         *)
(* operators; ParseFile is a loop over the scanner's lines and takes one   *)
(* step per line; Ruleset.Match is a query on the returned Ruleset.        *)
(* Go slices are modelled with their backing arrays (heap), so that two    *)
(* slices sharing an array are distinguishable from two copies.            *)
(***************************************************************************)
EXTENDS Integers, Sequences, FiniteSets, TLC

VARIABLES
  opts,           \* parseOptions of the running ParseFile call
  hist,           \* the lines the scanner has returned so far, in order
  lineNo,         \* ParseFile's lineNo
  rules,          \* ParseFile's rules (the Ruleset being built)
  sectionOwners,  \* ParseFile's sectionOwners (a slice)
  heap,           \* backing arrays of the []Owner slices
  status,         \* "parsing", "ok" (rules returned) or "error" (nil returned)
  err,            \* the error ParseFile returned
  ret,            \* the Ruleset ParseFile returned
  query,          \* the last Ruleset.Match call: its path and its result
  line,           \* the argument of a direct parseRule call
  res,            \* the result of that call
  pkgMatchers,    \* the package variable DefaultOwnerMatchers
  calls           \* the ParseFile calls made so far: their options and outcomes

pkgVars == <<pkgMatchers, calls>>
fileVars ==
  <<opts, hist, lineNo, rules, sectionOwners, heap, status, err, ret, query, pkgVars>>
lineVars == <<line, res>>
vars ==
  <<opts, hist, lineNo, rules, sectionOwners, heap, status, err, ret, query, line, res,
    pkgVars>>

----------------------------------------------------------------------------
(* Bounds of the model *)

\* the number of lines of an input file
MaxLines == 3
\* the number of matchers in a list given to newOwner
MaxMatchers == 3
\* the number of ParseFile calls of one process, and of lines of each
MaxCalls == 2
MaxCallLines == 2
\* the length of the line given to a direct parseRule call
MaxLen == 5
\* the length of the text between the approval-count brackets of a section line
MaxCount == 2
\* the number of segments of a pattern and of a path given to the matcher
MaxPatternSegs == 3
MaxDepth == 4
\* the length of a pattern and of a path written with escapes
MaxEscapeLen == 3
MaxEscapePath == 2
\* the longest pattern written with "|", "{" and "}"
MaxPipeLen == 3
\* the number of owner tokens of a rule line
MaxOwners == 2

----------------------------------------------------------------------------
(* Characters *)

Upper == {"A","B","C","D","E","F","G","H","I","J","K","L","M",
          "N","O","P","Q","R","S","T","U","V","W","X","Y","Z"}
Lower == {"a","b","c","d","e","f","g","h","i","j","k","l","m",
          "n","o","p","q","r","s","t","u","v","w","x","y","z"}
Digit == {"0","1","2","3","4","5","6","7","8","9"}

isWhitespace(ch) == ch \in {" ", "\t", "\n"}

isAlphanumeric(ch) == ch \in Upper \cup Lower \cup Digit

isPatternChar(ch) ==
  ch \in {"*", "?", ".", "/", "@", "_", "+", "-", "\\", "(", ")"} \/ isAlphanumeric(ch)

isOwnersChar(ch) ==
  ch \in {".", "@", "/", "_", "%", "+", "-"} \/ isAlphanumeric(ch)

isSectionChar(ch) ==
  ch \in {".", "@", "/", "_", "%", "+", "-", " "} \/ isAlphanumeric(ch)

isSectionEnd(ch) == ch = "]"

isSectionStart(ch) == ch \in {"[", "^"}

\* the characters strings.TrimSpace removes (those a line of the model can hold)
isSpace(ch) == ch \in {" ", "\t", "\n", "\r", "\f"}

RECURSIVE TrimLeft(_)
TrimLeft(s) ==
  IF Len(s) > 0 /\ isSpace(Head(s)) THEN TrimLeft(Tail(s)) ELSE s

RECURSIVE TrimRight(_)
TrimRight(s) ==
  IF Len(s) > 0 /\ isSpace(s[Len(s)]) THEN TrimRight(SubSeq(s, 1, Len(s) - 1)) ELSE s

TrimSpace(s) == TrimRight(TrimLeft(s))

\* s[i:] of Go, i a 0-based offset
From(s, i) == SubSeq(s, i + 1, Len(s))

AllIn(s, lo, hi, S) == \A k \in lo..hi : s[k] \in S

----------------------------------------------------------------------------
(* Errors and owners *)

\* text: the error is one that fmt.Errorf made of the text of another with %s, so it
\* does not wrap it
Nil ==
  [kind |-> "nil", ch |-> "", pos |-> 0, owner |-> <<>>, prefix |-> "", line |-> 0,
   text |-> FALSE]

ErrUnexpectedCharacter(c, p) ==
  [Nil EXCEPT !.kind = "unexpected character", !.ch = c, !.pos = p]

ErrUnexpectedEnd == [Nil EXCEPT !.kind = "unexpected end of rule"]

ErrNoMatch == [Nil EXCEPT !.kind = "no match"]

ErrInvalidOwnerFormat(s) == [Nil EXCEPT !.kind = "invalid owner format", !.owner = s]

ErrUnterminatedClass == [Nil EXCEPT !.kind = "unterminated character class"]

ErrInvalidApprovalCount(p) ==
  [Nil EXCEPT !.kind = "invalid approval count", !.pos = p, !.prefix = "section"]

\* the error of a matcher that a caller has written
ErrReserved == [Nil EXCEPT !.kind = "reserved name"]

\* fmt.Errorf("%w at position %d", err, p)
AtPosition(e, p) == [e EXCEPT !.pos = p]

\* fmt.Errorf("%s at position %d", err.Error(), p): a new error with the text of e
AtPositionText(e, p) == [e EXCEPT !.pos = p, !.text = TRUE]

\* fmt.Errorf("section: %w ...", err)
InSection(e) == [e EXCEPT !.prefix = "section"]

\* fmt.Errorf("line %d: %w", lineNo, err)
AtLine(e, n) == [e EXCEPT !.line = n]

Owner(v, t) == [Value |-> v, Type |-> t]

NoOwner == Owner(<<>>, "")

NameCh == Upper \cup Lower \cup Digit \cup {"-", "_"}

\* ([NameCh]+)([seps][NameCh]+){min,} over the whole of s
IsSegments(s, seps, min) ==
  /\ Len(s) > 0
  /\ AllIn(s, 1, Len(s), NameCh \cup seps)
  /\ s[1] \in NameCh /\ s[Len(s)] \in NameCh
  /\ \A k \in 1..(Len(s) - 1) : ~(s[k] \in seps /\ s[k + 1] \in seps)
  /\ Cardinality({k \in 1..Len(s) : s[k] \in seps}) >= min

\* emailRegexp: \A[A-Z0-9a-z\._%\+\-]+@[A-Za-z0-9\.\-]+\.[A-Za-z]{2,6}\z
emailRegexp(s) ==
  \E a \in 2..Len(s) : \E d \in (a + 2)..Len(s) :
    /\ s[a] = "@"
    /\ AllIn(s, 1, a - 1, Upper \cup Lower \cup Digit \cup {".", "_", "%", "+", "-"})
    /\ AllIn(s, a + 1, d - 1, Upper \cup Lower \cup Digit \cup {".", "-"})
    /\ s[d] = "."
    /\ (Len(s) - d) \in 2..6
    /\ AllIn(s, d + 1, Len(s), Upper \cup Lower)

\* teamRegexp: \A@(([a-zA-Z0-9\-_]+)([\/][a-zA-Z0-9\-_]+)+)\z
teamRegexp(s) == Len(s) > 1 /\ s[1] = "@" /\ IsSegments(Tail(s), {"/"}, 1)

\* usernameRegexp: \A@(([a-zA-Z0-9\-_]+)([\._][a-zA-Z0-9\-_]+)*)\z
\* (a "_" is a name character as well as a separator, so only the dots separate)
usernameRegexp(s) == Len(s) > 1 /\ s[1] = "@" /\ IsSegments(Tail(s), {"."}, 0)

MatchResult(o, e) == [owner |-> o, err |-> e]

MatchEmailOwner(s) ==
  IF emailRegexp(s) THEN MatchResult(Owner(s, "email"), Nil)
                    ELSE MatchResult(NoOwner, ErrNoMatch)

MatchTeamOwner(s) ==
  IF teamRegexp(s) THEN MatchResult(Owner(Tail(s), "team"), Nil)
                   ELSE MatchResult(NoOwner, ErrNoMatch)

MatchUsernameOwner(s) ==
  IF usernameRegexp(s) THEN MatchResult(Owner(Tail(s), "username"), Nil)
                       ELSE MatchResult(NoOwner, ErrNoMatch)

\* gitLabUsernameRegexp: \A@(([a-zA-Z0-9\-_]+)([._][a-zA-Z0-9\-_]+)*)\z
gitLabUsernameRegexp(s) == Len(s) > 1 /\ s[1] = "@" /\ IsSegments(Tail(s), {"."}, 0)

\* gitLabGroupRegexp: \A@(([a-zA-Z0-9\-_]+)([/][a-zA-Z0-9\-_]+)+)\z
gitLabGroupRegexp(s) == Len(s) > 1 /\ s[1] = "@" /\ IsSegments(Tail(s), {"/"}, 1)

\* gitLabRoleNameRegexp: \A@@(([a-zA-Z0-9\-_]+)([._][a-zA-Z0-9\-_]+)*)\z
gitLabRoleNameRegexp(s) ==
  Len(s) > 2 /\ s[1] = "@" /\ s[2] = "@" /\ IsSegments(Tail(Tail(s)), {"."}, 0)

\* rgx.FindStringSubmatch(s) of a GitLab expression: nil, or the match and group 1
FindStringSubmatch(rgx, s) ==
  CASE rgx = "gitLabUsernameRegexp" -> IF gitLabUsernameRegexp(s) THEN <<s, Tail(s)>> ELSE <<>>
    [] rgx = "gitLabGroupRegexp" -> IF gitLabGroupRegexp(s) THEN <<s, Tail(s)>> ELSE <<>>
    [] rgx = "gitLabRoleNameRegexp" -> IF gitLabRoleNameRegexp(s) THEN <<s, Tail(Tail(s))>> ELSE <<>>

\* the body of matchCustomOwner behind match := rgx.FindStringSubmatch(s)
customOwnerOf(match, t) ==
  IF match = <<>> \/ Len(match) < 2 THEN MatchResult(NoOwner, ErrNoMatch)
  ELSE MatchResult(Owner(match[2], t), Nil)

matchCustomOwner(s, t, rgx) == customOwnerOf(FindStringSubmatch(rgx, s), t)

\* an OwnerMatcher of a caller: it fails, with an error of its own, on the tokens
\* that start with "@@", and matches no other
MatchReserved(s) ==
  IF Len(s) > 1 /\ s[1] = "@" /\ s[2] = "@" THEN MatchResult(NoOwner, ErrReserved)
  ELSE MatchResult(NoOwner, ErrNoMatch)

\* an OwnerMatcher is named by a string; Match applies it
OwnerMatcherMatch(m, s) ==
  CASE m = "email" -> MatchEmailOwner(s)
    [] m = "team" -> MatchTeamOwner(s)
    [] m = "username" -> MatchUsernameOwner(s)
    [] m = "gitlabUsername" -> matchCustomOwner(s, "username", "gitLabUsernameRegexp")
    [] m = "gitlabGroup" -> matchCustomOwner(s, "group", "gitLabGroupRegexp")
    [] m = "gitlabRole" -> matchCustomOwner(s, "role", "gitLabRoleNameRegexp")
    [] m = "reserved" -> MatchReserved(s)

DefaultOwnerMatchers == <<"email", "team", "username">>

GitLabOwnerMatchers == <<"gitlabUsername", "gitlabGroup", "gitlabRole", "email">>

\* what newOwner returns, and the number of matchers it has called
Classified(o, e, n) == [owner |-> o, err |-> e, tried |-> n]

RECURSIVE newOwnerFrom(_, _, _)
RECURSIVE newOwnerTry(_, _, _, _)

\* mutant: a matcher that fails is passed over like one that does not match
newOwnerTryPassesOver(m, s, mm, k) ==
  IF m.err # Nil THEN newOwnerFrom(s, mm, k + 1)
  ELSE Classified(m.owner, Nil, k)

\* the body of the loop of newOwner behind o, err := m.Match(s), m the k-th matcher
newOwnerTry(m, s, mm, k) ==
  IF m.err = ErrNoMatch THEN newOwnerFrom(s, mm, k + 1)
  ELSE IF m.err # Nil THEN Classified(NoOwner, m.err, k)
  ELSE Classified(m.owner, Nil, k)

\* mutant: the last matcher that matches classifies the token
newOwnerFromLast(s, mm, k) ==
  LET Hit == {j \in k..Len(mm) : OwnerMatcherMatch(mm[j], s).err # ErrNoMatch} IN
  IF Hit = {} THEN Classified(NoOwner, ErrInvalidOwnerFormat(s), Len(mm))
  ELSE Classified(OwnerMatcherMatch(mm[CHOOSE j \in Hit : \A i \in Hit : i <= j], s).owner,
                  Nil, Len(mm))

\* mutant: a token no matcher matches is taken as it is
newOwnerFromLenient(s, mm, k) ==
  LET Hit == {j \in k..Len(mm) : OwnerMatcherMatch(mm[j], s).err # ErrNoMatch} IN
  IF Hit = {} THEN Classified(Owner(s, "username"), Nil, Len(mm))
  ELSE Classified(OwnerMatcherMatch(mm[CHOOSE j \in Hit : \A i \in Hit : j <= i], s).owner,
                  Nil, CHOOSE j \in Hit : \A i \in Hit : j <= i)

\* the loop of newOwner from the k-th matcher on
newOwnerFrom(s, mm, k) ==
  IF k > Len(mm) THEN Classified(NoOwner, ErrInvalidOwnerFormat(s), Len(mm))
  ELSE newOwnerTry(OwnerMatcherMatch(mm[k], s), s, mm, k)

newOwner(s, mm) == newOwnerFrom(s, mm, 1)

----------------------------------------------------------------------------
(* The pattern compiler.  Its source file is not part of the sources at    *)
(* hand: it is modelled from section 4.1 of the specification.  A compiled *)
(* pattern is a sequence of elements, the anchoring and the terminator.    *)

Elem(kind, c, set) == [k |-> kind, c |-> c, set |-> set]

\* step 1: anchored iff the pattern holds a "/" that is not its last character
Anchored(p) == \E k \in 1..(Len(p) - 1) : p[k] = "/"

\* step 2: a trailing "/" makes the pattern directory-only
DirOnly(p) == Len(p) > 0 /\ p[Len(p)] = "/"

\* step 2: one leading and one trailing "/" are stripped
StripSlashes(p) ==
  LET q == IF DirOnly(p) THEN SubSeq(p, 1, Len(p) - 1) ELSE p
  IN IF Len(q) > 0 /\ q[1] = "/" THEN Tail(q) ELSE q

\* step 3: a "**" at position i counts only between segment boundaries
IsDoubleStar(b, i) ==
  /\ i + 1 <= Len(b) /\ b[i] = "*" /\ b[i + 1] = "*"
  /\ (i = 1 \/ b[i - 1] = "/")
  /\ (i + 1 = Len(b) \/ b[i + 2] = "/")

\* mutant: a character class left open is no error
ClassErrorNever(inClass) == Nil

\* step 3: at the end of the pattern a character class still open is an error
ClassError(inClass) == IF inClass THEN ErrUnterminatedClass ELSE Nil

\* mutant: a wildcard behind a backslash is still a wildcard
EscapedElemWild(ch) ==
  IF ch = "*" THEN Elem("star", "", {})
  ELSE IF ch = "?" THEN Elem("one", "", {})
  ELSE Elem("lit", ch, {})

\* step 3: the character behind a backslash is matched as it is
EscapedElem(ch) == Elem("lit", ch, {})

\* mutant: the "/" before a "**" at the end of the pattern is optional
TrailingDoubleStarOptional(out) ==
  IF Len(out) > 0 /\ out[Len(out)] = Elem("lit", "/", {})
  THEN SubSeq(out, 1, Len(out) - 1)
  ELSE Append(out, Elem("rest", "", {}))

\* step 3: a "**" at the end of the pattern matches all that follows
TrailingDoubleStar(out) == Append(out, Elem("rest", "", {}))

\* step 3: the translation, left to right, with the two flags
RECURSIVE Translate(_, _, _, _, _, _)
Translate(b, i, inClass, escaped, cls, out) ==
  IF i > Len(b) THEN
    [elems |-> IF escaped THEN Append(out, Elem("lit", "\\", {})) ELSE out,
     err |-> ClassError(inClass)]
  ELSE LET ch == b[i] IN
    IF escaped THEN
      IF inClass THEN Translate(b, i + 1, TRUE, FALSE, cls \cup {ch}, out)
      ELSE Translate(b, i + 1, FALSE, FALSE, cls, Append(out, EscapedElem(ch)))
    ELSE IF ch = "\\" THEN Translate(b, i + 1, inClass, TRUE, cls, out)
    ELSE IF inClass THEN
      IF ch = "]" THEN Translate(b, i + 1, FALSE, FALSE, {}, Append(out, Elem("class", "", cls)))
      ELSE Translate(b, i + 1, TRUE, FALSE, cls \cup {ch}, out)
    ELSE IF IsDoubleStar(b, i) THEN
      IF i + 1 = Len(b) THEN Translate(b, i + 2, FALSE, FALSE, cls, TrailingDoubleStar(out))
      ELSE Translate(b, i + 3, FALSE, FALSE, cls, Append(out, Elem("segments", "", {})))
    ELSE IF ch = "*" THEN Translate(b, i + 1, FALSE, FALSE, cls, Append(out, Elem("star", "", {})))
    ELSE IF ch = "?" THEN Translate(b, i + 1, FALSE, FALSE, cls, Append(out, Elem("one", "", {})))
    ELSE IF ch = "[" THEN Translate(b, i + 1, TRUE, FALSE, {}, out)
    ELSE Translate(b, i + 1, FALSE, FALSE, cls, Append(out, Elem("lit", ch, {})))

\* compile(patternString): the Pattern (raw source and matcher) or an error
newPattern(p) ==
  LET t == Translate(StripSlashes(p), 1, FALSE, FALSE, {}, <<>>)
  IN [pattern |-> p, anchored |-> Anchored(p), dirOnly |-> DirOnly(p),
      elems |-> t.elems, err |-> t.err]

NoPattern == [pattern |-> <<>>, anchored |-> FALSE, dirOnly |-> FALSE, elems |-> <<>>, err |-> Nil]

\* mutant: a "*" runs over the "/" as well
StarRunAcross(path, j) == j..Len(path)

\* a "*": the offsets reachable from j without crossing a "/"
StarRun(path, j) == {m \in j..Len(path) : \A x \in (j + 1)..m : path[x] # "/"}

\* mutant: a "**/" runs over any characters
SegmentSkipsAnywhere(path, j) == j..Len(path)

\* a "**/": offset j itself, or the offset behind any "/" that follows
SegmentSkips(path, j) == {j} \cup {x \in (j + 1)..Len(path) : path[x] = "/"}

\* the offsets at which elems[k..] can stop when started at offset j of path
RECURSIVE Ends(_, _, _, _)
Ends(elems, k, path, j) ==
  IF k > Len(elems) THEN {j}
  ELSE LET e == elems[k]
           n == Len(path)
       IN CASE e.k = "lit" ->
                 IF j < n /\ path[j + 1] = e.c THEN Ends(elems, k + 1, path, j + 1) ELSE {}
            [] e.k = "class" ->
                 IF j < n /\ path[j + 1] \in e.set THEN Ends(elems, k + 1, path, j + 1) ELSE {}
            [] e.k = "one" ->
                 IF j < n /\ path[j + 1] # "/" THEN Ends(elems, k + 1, path, j + 1) ELSE {}
            [] e.k = "star" ->
                 UNION {Ends(elems, k + 1, path, m) : m \in StarRun(path, j)}
            [] e.k = "segments" ->
                 UNION {Ends(elems, k + 1, path, m) : m \in SegmentSkips(path, j)}
            [] e.k = "rest" ->
                 UNION {Ends(elems, k + 1, path, m) : m \in j..n}

\* mutant: a match may start behind any "/", whatever the pattern
StartsAnywhere(pat, path) == {0} \cup {x \in 1..Len(path) : path[x] = "/"}

\* step 1: where a match may start
Starts(pat, path) ==
  IF pat.anchored THEN {0} ELSE {0} \cup {x \in 1..Len(path) : path[x] = "/"}

\* mutant: a pattern that is not directory-only may end inside a segment
TerminatesInside(pat, path, j) ==
  IF pat.dirOnly THEN j < Len(path) /\ path[j + 1] = "/"
  ELSE TRUE

\* mutant: a directory-only pattern matches the directory and nothing below it
TerminatesAtEnd(pat, path, j) ==
  IF pat.dirOnly THEN j + 1 = Len(path) /\ path[j + 1] = "/"
  ELSE j = Len(path) \/ path[j + 1] = "/"

\* mutant: a directory-only pattern ends like any other
TerminatesAsFile(pat, path, j) == j = Len(path) \/ path[j + 1] = "/"

\* step 4: the terminator
Terminates(pat, path, j) ==
  IF pat.dirOnly THEN j < Len(path) /\ path[j + 1] = "/"
  ELSE j = Len(path) \/ path[j + 1] = "/"

\* pattern.match(testPath)
patternMatch(pat, path) ==
  \E s \in Starts(pat, path) : \E j \in Ends(pat.elems, 1, path, s) : Terminates(pat, path, j)

----------------------------------------------------------------------------
(* Slices of owners *)

\* a []Owner: its backing array (0: none, the slice is nil) and its length
Slice(a, n) == [arr |-> a, len |-> n]

EmptySlice == Slice(0, 0)

\* []Owner{}: a slice that is not nil and has no element (its array is no array of
\* the heap)
emptyOwners == Slice(-1, 0)

\* sl == nil
IsNil(sl) == sl.arr = 0

\* the owners a slice holds
Deref(h, sl) == IF sl.arr <= 0 THEN <<>> ELSE SubSeq(h[sl.arr], 1, sl.len)

\* the slice built by appending owners to a nil slice, and the heap holding it
Alloc(h, owners) ==
  IF Len(owners) = 0 THEN [heap |-> h, slice |-> EmptySlice]
  ELSE [heap |-> Append(h, owners), slice |-> Slice(Len(h) + 1, Len(owners))]

----------------------------------------------------------------------------
(* parseRule *)

statePattern == 1
stateOwners == 2
stateSection == 3
stateSectionBrace == 4
stateSectionApprovalCount == 5

\* the locals of parseRule: r (pattern, Owners, Comment), state, escaped, buf; the
\* error returned, if any; stop after the break at a "#"
RuleScan0 ==
  [state |-> statePattern, escaped |-> FALSE, buf |-> <<>>, pattern |-> NoPattern,
   owners |-> <<>>, comment |-> <<>>, err |-> Nil, stop |-> FALSE]

\* mutant: the owner is put before the owners found so far
ruleOwnersAppendFront(owners, owner) == <<owner>> \o owners

\* r.Owners = append(r.Owners, owner)
ruleOwnersAppend(owners, owner) == Append(owners, owner)

\* the owner o of the token in the buffer is appended, or its error reported at pos
ruleOwnerAdd(ps, o, pos) ==
  IF o.err # Nil THEN [ps EXCEPT !.err = AtPosition(o.err, pos)]
  ELSE [ps EXCEPT !.owners = ruleOwnersAppend(ps.owners, o.owner), !.buf = <<>>]

\* the end of an owner token: classify the buffer, append the owner or fail at pos
ruleOwnerEnd(ps, mm, pos) == ruleOwnerAdd(ps, newOwner(ps.buf, mm), pos)

\* behind the loop the error of the last token is reported by its text
ruleLastOwner(ps, o, pos) ==
  IF o.err # Nil THEN [ps EXCEPT !.err = AtPositionText(o.err, pos)]
  ELSE [ps EXCEPT !.owners = ruleOwnersAppend(ps.owners, o.owner)]

\* the owner token left in the buffer at the end of the line
ruleOwnerLast(ps, mm, pos) == ruleLastOwner(ps, newOwner(ps.buf, mm), pos)

\* the compiled pattern pat is stored, or its error returned
rulePatternSet(ps, pat) ==
  IF pat.err # Nil THEN [ps EXCEPT !.err = pat.err]
  ELSE [ps EXCEPT !.pattern = pat]

\* mutant: the buffer is reset before it is compiled
rulePatternEndReset(ps) == rulePatternSet(ps, newPattern(<<>>))

\* the end of the pattern: compile the buffer or fail
rulePatternEnd(ps) == rulePatternSet(ps, newPattern(ps.buf))

\* behind the pattern: on to the owners, unless the pattern did not compile
ruleToOwners(q) ==
  IF q.err # Nil THEN q
  ELSE [q EXCEPT !.buf = <<>>, !.state = stateOwners, !.escaped = FALSE]

\* mutant: the 0-based offset is reported
unexpectedAtOffset(ch, i) == ErrUnexpectedCharacter(ch, i)

\* fmt.Errorf("unexpected character '%c' at position %d", ch, i+1)
unexpectedAt(ch, i) == ErrUnexpectedCharacter(ch, i + 1)

\* mutant: the backslash of an escape is not written to the buffer
ruleStepDropsBackslash(ps, ruleStr, mm, ch, i) ==
  IF ch = "#" THEN
    [ps EXCEPT !.comment = TrimSpace(From(ruleStr, i + 1)), !.stop = TRUE]
  ELSE IF ps.state = statePattern THEN
    IF ch = "\\" THEN
      [ps EXCEPT !.escaped = TRUE]
    ELSE IF isWhitespace(ch) /\ ~ps.escaped THEN
      ruleToOwners(rulePatternEnd(ps))
    ELSE IF isPatternChar(ch) \/ (isWhitespace(ch) /\ ps.escaped) THEN
      [ps EXCEPT !.buf = Append(ps.buf, ch), !.escaped = FALSE]
    ELSE [ps EXCEPT !.err = unexpectedAt(ch, i)]
  ELSE \* stateOwners
    IF isWhitespace(ch) THEN
      IF Len(ps.buf) > 0 THEN ruleOwnerEnd(ps, mm, i + 1 - Len(ps.buf)) ELSE ps
    ELSE IF isOwnersChar(ch) THEN
      [ps EXCEPT !.buf = Append(ps.buf, ch)]
    ELSE [ps EXCEPT !.err = unexpectedAt(ch, i)]

\* one iteration of the loop over the characters: ch at 0-based offset i
ruleStep(ps, ruleStr, mm, ch, i) ==
  IF ch = "#" THEN
    [ps EXCEPT !.comment = TrimSpace(From(ruleStr, i + 1)), !.stop = TRUE]
  ELSE IF ps.state = statePattern THEN
    IF ch = "\\" THEN
      [ps EXCEPT !.escaped = TRUE, !.buf = Append(ps.buf, ch)]
    ELSE IF isWhitespace(ch) /\ ~ps.escaped THEN
      ruleToOwners(rulePatternEnd(ps))
    ELSE IF isPatternChar(ch) \/ (isWhitespace(ch) /\ ps.escaped) THEN
      [ps EXCEPT !.buf = Append(ps.buf, ch), !.escaped = FALSE]
    ELSE [ps EXCEPT !.err = unexpectedAt(ch, i)]
  ELSE \* stateOwners
    IF isWhitespace(ch) THEN
      IF Len(ps.buf) > 0 THEN ruleOwnerEnd(ps, mm, i + 1 - Len(ps.buf)) ELSE ps
    ELSE IF isOwnersChar(ch) THEN
      [ps EXCEPT !.buf = Append(ps.buf, ch)]
    ELSE [ps EXCEPT !.err = unexpectedAt(ch, i)]

\* mutant: the loop goes on behind a "#"
RECURSIVE ruleLoopOn(_, _, _, _, _)
ruleLoopOn(ps, ruleStr, t, mm, i) ==
  IF i >= Len(t) \/ ps.err # Nil THEN ps
  ELSE ruleLoopOn(ruleStep(ps, ruleStr, mm, t[i + 1], i), ruleStr, t, mm, i + 1)

\* the loop over strings.TrimSpace(ruleStr), from 0-based offset i
RECURSIVE ruleLoop(_, _, _, _, _)
ruleLoop(ps, ruleStr, t, mm, i) ==
  IF i >= Len(t) \/ ps.stop \/ ps.err # Nil THEN ps
  ELSE ruleLoop(ruleStep(ps, ruleStr, mm, t[i + 1], i), ruleStr, t, mm, i + 1)

\* mutant: a pattern still in the buffer at the end of the line is not compiled
ruleFinishNoCompile(ps, ruleStr, mm) ==
  IF ps.err # Nil THEN ps
  ELSE IF ps.state = statePattern THEN
    IF Len(ps.buf) = 0 THEN [ps EXCEPT !.err = ErrUnexpectedEnd]
    ELSE ps
  ELSE IF Len(ps.buf) > 0 THEN ruleOwnerLast(ps, mm, Len(ruleStr) + 1 - Len(ps.buf))
  ELSE ps

\* mutant: an empty buffer at the end of the line is compiled as a pattern
ruleFinishEmptyOk(ps, ruleStr, mm) ==
  IF ps.err # Nil THEN ps
  ELSE IF ps.state = statePattern THEN rulePatternEnd(ps)
  ELSE IF Len(ps.buf) > 0 THEN ruleOwnerLast(ps, mm, Len(ruleStr) + 1 - Len(ps.buf))
  ELSE ps

\* after the loop: what is left in the buffer
ruleFinish(ps, ruleStr, mm) ==
  IF ps.err # Nil THEN ps
  ELSE IF ps.state = statePattern THEN
    IF Len(ps.buf) = 0 THEN [ps EXCEPT !.err = ErrUnexpectedEnd]
    ELSE rulePatternEnd(ps)
  ELSE IF Len(ps.buf) > 0 THEN ruleOwnerLast(ps, mm, Len(ruleStr) + 1 - Len(ps.buf))
  ELSE ps

\* the locals of parseRule when it reaches its last statement or returns an error
ruleScan(ruleStr, mm) ==
  ruleFinish(ruleLoop(RuleScan0, ruleStr, TrimSpace(ruleStr), mm, 0), ruleStr, mm)

\* mutant: the owners of the section are never inherited
ruleOwnersNever(h, owners, inheritedOwners) == Alloc(h, owners)

\* r.Owners at the return: the owners of the line, or inheritedOwners itself
ruleOwners(h, owners, inheritedOwners) ==
  IF Len(owners) = 0 THEN [heap |-> h, slice |-> inheritedOwners]
  ELSE Alloc(h, owners)

\* the Rule and the error returned from the locals ps, with r.Owners in own
ruleReturn(ps, own) ==
  [rule |-> [LineNumber |-> 0, pattern |-> ps.pattern,
             Owners |-> own.slice, Comment |-> ps.comment],
   err |-> ps.err, heap |-> own.heap]

\* the returns of parseRule: an error leaves the owners found so far in r.Owners
ruleResult(ps, inheritedOwners, h) ==
  IF ps.err # Nil THEN ruleReturn(ps, Alloc(h, ps.owners))
  ELSE ruleReturn(ps, ruleOwners(h, ps.owners, inheritedOwners))

\* parseRule(ruleStr, opts, inheritedOwners): the Rule, the error, the heap after
parseRule(ruleStr, o, inheritedOwners, h) ==
  ruleResult(ruleScan(ruleStr, o.ownerMatchers), inheritedOwners, h)

----------------------------------------------------------------------------
(* parseSection *)

DigitValue(ch) == CHOOSE v \in 0..9 : <<"0","1","2","3","4","5","6","7","8","9">>[v + 1] = ch

RECURSIVE Decimal(_)
Decimal(ds) ==
  IF Len(ds) = 0 THEN 0
  ELSE 10 * Decimal(SubSeq(ds, 1, Len(ds) - 1)) + DigitValue(ds[Len(ds)])

\* strconv.Atoi: an optional sign and at least one digit (no overflow at these lengths)
Atoi(b) ==
  LET signed == Len(b) > 0 /\ b[1] \in {"+", "-"}
      ds == IF signed THEN Tail(b) ELSE b
  IN IF Len(ds) = 0 \/ ~AllIn(ds, 1, Len(ds), Digit) THEN [ok |-> FALSE, n |-> 0]
     ELSE [ok |-> TRUE, n |-> IF signed /\ b[1] = "-" THEN 0 - Decimal(ds) ELSE Decimal(ds)]

\* the locals of parseSection: s (Name, Owners, Comment, ApprovalOptional,
\* ApprovalCount), state, escaped, buf; the error returned, if any
SectionScan0 ==
  [state |-> stateSection, escaped |-> FALSE, buf |-> <<>>, name |-> <<>>,
   owners |-> <<>>, comment |-> <<>>, optional |-> FALSE, count |-> 0,
   err |-> Nil, stop |-> FALSE]

\* inside the loop the owner o of the token is appended, or its error reported at pos
sectionOwnerAdd(ps, o, pos) ==
  IF o.err # Nil THEN [ps EXCEPT !.err = InSection(AtPosition(o.err, pos))]
  ELSE [ps EXCEPT !.owners = Append(ps.owners, o.owner), !.buf = <<>>]

\* the end of an owner token inside the loop
sectionOwnerEnd(ps, mm, pos) == sectionOwnerAdd(ps, newOwner(ps.buf, mm), pos)

\* one iteration of the loop over the characters: ch at 0-based offset i
sectionStep(ps, ruleStr, mm, ch, i) ==
  LET unexpected == [ps EXCEPT !.err = InSection(unexpectedAt(ch, i))] IN
  IF ch = "#" THEN
    [ps EXCEPT !.comment = TrimSpace(From(ruleStr, i + 1)), !.stop = TRUE]
  ELSE IF ps.state = stateSection THEN
    IF ch = "\\" THEN [ps EXCEPT !.escaped = TRUE, !.buf = Append(ps.buf, ch)]
    ELSE IF isSectionStart(ch) THEN
      IF ch = "^" THEN [ps EXCEPT !.optional = TRUE]
      ELSE [ps EXCEPT !.state = stateSectionBrace]
    ELSE IF isSectionChar(ch) THEN [ps EXCEPT !.buf = Append(ps.buf, ch)]
    ELSE IF isSectionEnd(ch) \/ (isWhitespace(ch) /\ ~ps.escaped) THEN
      [ps EXCEPT !.buf = <<>>, !.state = stateOwners]
    ELSE unexpected
  ELSE IF ps.state = stateSectionBrace THEN
    IF ch = "\\" THEN [ps EXCEPT !.escaped = TRUE, !.buf = Append(ps.buf, ch)]
    ELSE IF isSectionEnd(ch) THEN
      [ps EXCEPT !.name = ps.buf, !.buf = <<>>, !.state = stateOwners]
    ELSE IF isSectionChar(ch) THEN [ps EXCEPT !.buf = Append(ps.buf, ch)]
    ELSE unexpected
  ELSE IF ps.state = stateSectionApprovalCount THEN
    IF isSectionEnd(ch) THEN
      LET n == Atoi(ps.buf) IN
      IF ~n.ok THEN [ps EXCEPT !.err = ErrInvalidApprovalCount(i + 1)]
      ELSE [ps EXCEPT !.count = n.n, !.buf = <<>>, !.state = stateOwners]
    ELSE [ps EXCEPT !.buf = Append(ps.buf, ch)]
  ELSE \* stateOwners
    IF isSectionStart(ch) THEN [ps EXCEPT !.state = stateSectionApprovalCount]
    ELSE IF isWhitespace(ch) THEN
      IF Len(ps.buf) > 0 THEN sectionOwnerEnd(ps, mm, i + 1 - Len(ps.buf)) ELSE ps
    ELSE IF isOwnersChar(ch) THEN [ps EXCEPT !.buf = Append(ps.buf, ch)]
    ELSE unexpected

RECURSIVE sectionLoop(_, _, _, _, _)
sectionLoop(ps, ruleStr, t, mm, i) ==
  IF i >= Len(t) \/ ps.stop \/ ps.err # Nil THEN ps
  ELSE sectionLoop(sectionStep(ps, ruleStr, mm, t[i + 1], i), ruleStr, t, mm, i + 1)

\* behind the loop the error of the last token has no "section:" prefix
sectionLastOwner(ps, o, pos) ==
  IF o.err # Nil THEN [ps EXCEPT !.err = AtPositionText(o.err, pos)]
  ELSE [ps EXCEPT !.owners = Append(ps.owners, o.owner)]

\* after the loop: an owner left in the buffer
sectionFinish(ps, ruleStr, mm) ==
  IF ps.err # Nil \/ ps.state # stateOwners \/ Len(ps.buf) = 0 THEN ps
  ELSE sectionLastOwner(ps, newOwner(ps.buf, mm), Len(ruleStr) + 1 - Len(ps.buf))

\* mutant: the approval count is parsed and not stored
sectionResultNoCount(ps) ==
  [section |-> [Name |-> ps.name, Owners |-> ps.owners, Comment |-> ps.comment,
                ApprovalOptional |-> ps.optional, ApprovalCount |-> 0],
   err |-> ps.err]

\* the Section and the error returned from the locals ps
sectionResult(ps) ==
  [section |-> [Name |-> ps.name, Owners |-> ps.owners, Comment |-> ps.comment,
                ApprovalOptional |-> ps.optional, ApprovalCount |-> ps.count],
   err |-> ps.err]

\* parseSection(ruleStr, opts): the Section and the error
parseSection(ruleStr, o) ==
  sectionResult(sectionFinish(sectionLoop(SectionScan0, ruleStr, TrimSpace(ruleStr),
                                          o.ownerMatchers, 0),
                              ruleStr, o.ownerMatchers))

----------------------------------------------------------------------------
(* Ruleset.Match *)

NoRule == [LineNumber |-> 0, pattern |-> NoPattern, Owners |-> EmptySlice, Comment |-> <<>>]

\* Rule.Match(testPath): the compiled matcher matches or does not, without error
RuleMatch(r, testPath) == [match |-> patternMatch(r.pattern, testPath), err |-> Nil]

\* the loop of Ruleset.Match from index i (1-based) down: &rule and err, or nil, nil
RECURSIVE matchDown(_, _, _)
matchDown(r, path, i) ==
  IF i < 1 THEN [found |-> FALSE, rule |-> NoRule, err |-> Nil]
  ELSE LET m == RuleMatch(r[i], path) IN
       IF m.match \/ m.err # Nil THEN [found |-> TRUE, rule |-> r[i], err |-> m.err]
       ELSE matchDown(r, path, i - 1)

\* mutant: the first matching rule in file order wins
RulesetMatchFirst(r, path) ==
  LET M == {i \in 1..Len(r) : RuleMatch(r[i], path).match} IN
  IF M = {} THEN [found |-> FALSE, rule |-> NoRule, err |-> Nil]
  ELSE [found |-> TRUE, rule |-> r[CHOOSE i \in M : \A j \in M : i <= j], err |-> Nil]

\* mutant: rules without owners are passed over
RulesetMatchOwned(r, path) ==
  LET M == {i \in 1..Len(r) : RuleMatch(r[i], path).match /\ r[i].Owners.len > 0} IN
  IF M = {} THEN [found |-> FALSE, rule |-> NoRule, err |-> Nil]
  ELSE [found |-> TRUE, rule |-> r[CHOOSE i \in M : \A j \in M : j <= i], err |-> Nil]

\* Ruleset.Match(path)
RulesetMatch(r, path) == matchDown(r, path, Len(r))

\* Rule.RawPattern(): the pattern as it was given to the compiler (the accessor is
\* not part of the sources at hand: it is modelled from section 6 of the
\* specification)
RawPattern(r) == r.pattern.pattern

----------------------------------------------------------------------------
(* Inputs *)

Chars(s) == [i \in 1..Len(s) |-> SubSeq(s, i, i)]

\* the lines an input file is made of
FileLines ==
  { Chars(""), Chars(" \t"), Chars("#c"), Chars(" # c"),
    Chars("[S] @u"), Chars("^[T] @v @w"), Chars(" [S] # c"),
    Chars("* @u"), Chars(" a  @v #c"), Chars("a"), Chars("d/ "),
    Chars("a x"), Chars("[S] x") }

\* the paths Ruleset.Match is asked about
Paths == { Chars("a"), Chars("b"), Chars("d/a") }

\* the parseOptions a ParseFile call can run with
FileOptions ==
  { [ownerMatchers |-> DefaultOwnerMatchers, sectionSupport |-> ss] : ss \in BOOLEAN }

\* the characters of the line given to a direct parseRule call
RuleAlphabet == {"a", "@", " ", "#", "\\", "[", "/"}

RuleLines == UNION { [1..n -> RuleAlphabet] : n \in 0..MaxLen }

DefaultOptions == [ownerMatchers |-> DefaultOwnerMatchers, sectionSupport |-> FALSE]

\* the parts a section line is written with: "^", the name, the text between the
\* approval-count brackets, the owner tokens and the comment
CountAlphabet == {"0", "1", "-", "+", "x", " "}

CountTexts == UNION { [1..n -> CountAlphabet] : n \in 0..MaxCount }

SectionParts ==
  [ optional : BOOLEAN,
    name : { Chars("S"), Chars("a b"), <<>> },
    hasCount : BOOLEAN,
    count : CountTexts,
    owners : { <<>>, <<Chars("@u")>>, <<Chars("@o/t"), Chars("@u")>>, <<Chars("@u"), Chars("@v")>> },
    hasComment : BOOLEAN,
    comment : { <<>>, Chars(" c d ") } ]

RECURSIVE JoinTokens(_)
JoinTokens(toks) ==
  IF Len(toks) = 0 THEN <<>> ELSE <<" ">> \o Head(toks) \o JoinTokens(Tail(toks))

\* the section line written with the parts p
SectionLine(p) ==
  (IF p.optional THEN <<"^">> ELSE <<>>)
    \o <<"[">> \o p.name \o <<"]">>
    \o (IF p.hasCount THEN <<"[">> \o p.count \o <<"]">> ELSE <<>>)
    \o JoinTokens(p.owners)
    \o (IF p.hasComment THEN <<" ", "#">> \o p.comment ELSE <<>>)

SectionLines == { SectionLine(p) : p \in SectionParts }

\* short lines of brackets, for the section parser
BraceAlphabet == {"[", "]", "^", "1", "S", "#", " "}

BraceLines == UNION { [1..n -> BraceAlphabet] : n \in 0..MaxLen }

\* rule lines whose pattern is written with "|", "{" and "}", as those of TestParseRule
PipeAlphabet == {"a", "|", "{", "}"}

PipePatterns == UNION { [1..n -> PipeAlphabet] : n \in 1..MaxPipeLen }

PipeLines == { pat \o Chars(" @o/t") : pat \in PipePatterns }

\* rule lines with owners: the pattern a, then up to MaxOwners owner tokens, each
\* behind a run of spaces and tabs, and such a run or nothing behind the last
OwnerSeparators == { Chars(" "), Chars("  "), Chars("\t"), Chars(" \t") }

OwnerLineTokens == { Chars("@u"), Chars("@o/t"), Chars("a@b.cc") }

OwnerTails == { <<>>, Chars(" "), Chars("\t ") }

OwnerParts == UNION { [1..n -> OwnerSeparators \X OwnerLineTokens] : n \in 0..MaxOwners }

RECURSIVE JoinParts(_)
JoinParts(parts) ==
  IF Len(parts) = 0 THEN <<>>
  ELSE Head(parts)[1] \o Head(parts)[2] \o JoinParts(Tail(parts))

OwnerLines == { Chars("a") \o JoinParts(parts) \o tail : parts \in OwnerParts, tail \in OwnerTails }

----------------------------------------------------------------------------
(* ParseFile, one line of the scanner at a time *)

NoQuery == [asked |-> FALSE, path |-> <<>>, found |-> FALSE, rule |-> NoRule, err |-> Nil]

NoSection ==
  [Name |-> <<>>, Owners |-> <<>>, Comment |-> <<>>, ApprovalOptional |-> FALSE,
   ApprovalCount |-> 0]

\* the result of a direct call: the function called (fn) and what it returned
NoResult ==
  [called |-> FALSE, fn |-> "", rule |-> NoRule, section |-> NoSection,
   owner |-> NoOwner, tried |-> 0, err |-> Nil, heap |-> <<>>]

\* a Ruleset as a return value: nil, or the rules
Returned(isNil, rs) == [nil |-> isNil, rules |-> rs]

\* the package as it is loaded
InitPackage ==
  /\ pkgMatchers = DefaultOwnerMatchers
  /\ calls = <<>>

InitFile ==
  /\ InitPackage
  /\ opts \in FileOptions
  /\ hist = <<>>
  /\ lineNo = 0
  /\ rules = <<>>
  /\ sectionOwners = emptyOwners
  /\ heap = <<>>
  /\ status = "parsing"
  /\ err = Nil
  /\ ret = Returned(TRUE, <<>>)
  /\ query = NoQuery

\* mutant: the line is tested as the scanner returned it
scanTextRaw(text) == text

\* line := strings.TrimSpace(scanner.Text())
scanText(text) == TrimSpace(text)

\* the test that skips blank lines and comments
skipsLine(l) == Len(l) = 0 \/ l[1] = "#"

\* mutant: the owners are written into the array sectionOwners already has
sectionStoreInPlace(h, cur, owners) ==
  IF cur.arr <= 0 THEN Alloc(h, owners)
  ELSE [heap |-> [h EXCEPT ![cur.arr] =
                    [x \in 1..(IF Len(@) > Len(owners) THEN Len(@) ELSE Len(owners)) |->
                       IF x <= Len(owners) THEN owners[x] ELSE @[x]]],
        slice |-> Slice(cur.arr, Len(owners))]

\* mutant: a section without owners leaves sectionOwners as it was
sectionStoreKeep(h, cur, owners) ==
  IF Len(owners) = 0 THEN [heap |-> h, slice |-> cur] ELSE Alloc(h, owners)

\* sectionOwners = section.Owners: the slice parseSection built by appending to nil
sectionStore(h, cur, owners) == Alloc(h, owners)

\* mutant: the rule gets the 0-based number of its line
ruleAtOffByOne(r, n) == [r EXCEPT !.LineNumber = n - 1]

\* rule.LineNumber = lineNo
ruleAt(r, n) == [r EXCEPT !.LineNumber = n]

\* mutant: the rules parsed so far are returned with the error
failRulesetPartial(rs) == Returned(FALSE, rs)

\* the Ruleset of "return nil, fmt.Errorf(...)"
failRuleset(rs) == Returned(TRUE, <<>>)

\* return nil, fmt.Errorf("line %d: %w", lineNo, err)
Fail(e, n) ==
  /\ status' = "error"
  /\ err' = AtLine(e, n)
  /\ ret' = failRuleset(rules)
  /\ UNCHANGED <<rules, sectionOwners, heap>>

\* the loop body behind section, err := parseSection(line, opts)
ScanSection(sec) ==
  IF sec.err # Nil THEN Fail(sec.err, lineNo')
  ELSE LET st == sectionStore(heap, sectionOwners, sec.section.Owners) IN
       /\ sectionOwners' = st.slice
       /\ heap' = st.heap
       /\ UNCHANGED <<rules, status, err, ret>>

\* the loop body behind rule, err := parseRule(line, opts, sectionOwners)
ScanRule(pr) ==
  IF pr.err # Nil THEN Fail(pr.err, lineNo')
  ELSE /\ rules' = Append(rules, ruleAt(pr.rule, lineNo'))
       /\ heap' = pr.heap
       /\ UNCHANGED <<sectionOwners, status, err, ret>>

\* mutant: the line is taken for a section header whatever the options say
isSectionHeaderAlways(l, o) == isSectionStart(l[1])

\* if opts.sectionSupport && isSectionStart(rune(line[0]))
isSectionHeader(l, o) == o.sectionSupport /\ isSectionStart(l[1])

\* the loop body behind line := strings.TrimSpace(scanner.Text())
ScanTrimmed(l) ==
  IF skipsLine(l) THEN
    UNCHANGED <<rules, sectionOwners, heap, status, err, ret>>
  ELSE IF isSectionHeader(l, opts) THEN
    ScanSection(parseSection(l, opts))
  ELSE
    ScanRule(parseRule(l, opts, sectionOwners, heap))

\* one iteration of the loop over the scanner's lines
ScanLine(text) ==
  /\ status = "parsing"
  /\ Len(hist) < MaxLines
  /\ hist' = Append(hist, text)
  /\ lineNo' = lineNo + 1
  /\ ScanTrimmed(scanText(text))
  /\ UNCHANGED <<opts, query, line, res, pkgVars>>

\* scanner.Scan() returns false: return rules, nil
ScanEnd ==
  /\ status = "parsing"
  /\ status' = "ok"
  /\ ret' = Returned(FALSE, rules)
  /\ UNCHANGED <<opts, hist, lineNo, rules, sectionOwners, heap, err, query, line, res,
                 pkgVars>>

\* the path asked about and what Ruleset.Match returned for it
Asked(path, m) ==
  [asked |-> TRUE, path |-> path, found |-> m.found, rule |-> m.rule, err |-> m.err]

\* a caller asks the returned Ruleset for a path
Match(path) ==
  /\ status = "ok"
  /\ query' = Asked(path, RulesetMatch(ret.rules, path))
  /\ UNCHANGED <<opts, hist, lineNo, rules, sectionOwners, heap, status, err, ret, line, res,
                 pkgVars>>

Init ==
  /\ InitFile
  /\ line = <<>>
  /\ res = NoResult

Next ==
  \/ \E text \in FileLines : ScanLine(text)
  \/ ScanEnd
  \/ \E path \in Paths : Match(path)

Spec == Init /\ [][Next]_vars

----------------------------------------------------------------------------
(* ParseFile calls one after the other in one process, each with its options *)

\* what an option function can reach: the parseOptions of the call it is applied
\* in, and the variables of the package
parseOptions0(pkg) ==
  [opts |-> [ownerMatchers |-> pkg, sectionSupport |-> FALSE], pkg |-> pkg]

\* mutant: the list is stored in the package variable as well
WithOwnerMatchersGlobal(st, mm) == [st EXCEPT !.opts.ownerMatchers = mm, !.pkg = mm]

\* the function WithOwnerMatchers(mm) returns, applied
WithOwnerMatchers(st, mm) == [st EXCEPT !.opts.ownerMatchers = mm]

\* for _, opt := range options { opt(&opts) }
RECURSIVE applyOptions(_, _)
applyOptions(st, options) ==
  IF Len(options) = 0 THEN st
  ELSE applyOptions(WithOwnerMatchers(st, Head(options)), Tail(options))

\* the options of a call: the lists given with WithOwnerMatchers, in order
CallOptions == { <<>>, <<GitLabOwnerMatchers>>, <<GitLabOwnerMatchers, <<"team">>>> }

CallLines == { Chars("a @o/t"), Chars("b @u") }

\* the call log with the outcome of the call that has returned
Finished(cs) ==
  IF Len(cs) = 0 THEN cs
  ELSE [cs EXCEPT ![Len(cs)] =
          [@ EXCEPT !.done = TRUE, !.lines = hist, !.status = status, !.err = err,
                    !.rules = ret.rules]]

InitCalls ==
  /\ InitPackage
  /\ opts = DefaultOptions
  /\ hist = <<>>
  /\ lineNo = 0
  /\ rules = <<>>
  /\ sectionOwners = emptyOwners
  /\ heap = <<>>
  /\ status = "idle"
  /\ err = Nil
  /\ ret = Returned(TRUE, <<>>)
  /\ query = NoQuery
  /\ line = <<>>
  /\ res = NoResult

\* ParseFile(f, options...): the statements before the loop over the lines
ParseFileCall(options) ==
  /\ status # "parsing"
  /\ Len(calls) < MaxCalls
  /\ LET st == applyOptions(parseOptions0(pkgMatchers), options) IN
     /\ opts' = st.opts
     /\ pkgMatchers' = st.pkg
  /\ calls' = Append(Finished(calls),
                     [options |-> options, done |-> FALSE, lines |-> <<>>,
                      status |-> "parsing", err |-> Nil, rules |-> <<>>])
  /\ hist' = <<>>
  /\ lineNo' = 0
  /\ rules' = <<>>
  /\ sectionOwners' = emptyOwners
  /\ status' = "parsing"
  /\ err' = Nil
  /\ ret' = Returned(TRUE, <<>>)
  /\ UNCHANGED <<heap, query, line, res>>

NextCalls ==
  \/ \E options \in CallOptions : ParseFileCall(options)
  \/ \E text \in CallLines : Len(hist) < MaxCallLines /\ ScanLine(text)
  \/ ScanEnd

SpecCalls == InitCalls /\ [][NextCalls]_vars

----------------------------------------------------------------------------
(* A direct call of parseRule on one line *)

InitRule ==
  /\ InitPackage
  /\ opts = DefaultOptions
  /\ hist = <<>>
  /\ lineNo = 0
  /\ rules = <<>>
  /\ sectionOwners = EmptySlice
  /\ heap = <<>>
  /\ status = "parsing"
  /\ err = Nil
  /\ ret = Returned(TRUE, <<>>)
  /\ query = NoQuery
  /\ line \in RuleLines
  /\ res = NoResult

\* what a call of parseRule returned
ParseRuleReturned(pr) ==
  [NoResult EXCEPT !.called = TRUE, !.fn = "parseRule", !.rule = pr.rule,
                   !.err = pr.err, !.heap = pr.heap]

CallParseRule ==
  /\ ~res.called
  /\ res' = ParseRuleReturned(parseRule(line, opts, EmptySlice, <<>>))
  /\ UNCHANGED <<fileVars, line>>

NextRule == CallParseRule

SpecRule == InitRule /\ [][NextRule]_vars

----------------------------------------------------------------------------
(* A direct call of parseRule or of parseSection on one line *)

InitLine ==
  /\ InitPackage
  /\ opts = DefaultOptions
  /\ hist = <<>>
  /\ lineNo = 0
  /\ rules = <<>>
  /\ sectionOwners = EmptySlice
  /\ heap = <<>>
  /\ status = "parsing"
  /\ err = Nil
  /\ ret = Returned(TRUE, <<>>)
  /\ query = NoQuery
  /\ line \in RuleLines \cup SectionLines \cup BraceLines \cup PipeLines \cup OwnerLines
  /\ res = NoResult

\* what a call of parseSection returned
ParseSectionReturned(sec) ==
  [NoResult EXCEPT !.called = TRUE, !.fn = "parseSection",
                   !.section = sec.section, !.err = sec.err]

CallParseSection ==
  /\ ~res.called
  /\ res' = ParseSectionReturned(parseSection(line, opts))
  /\ UNCHANGED <<fileVars, line>>

NextLine ==
  \/ CallParseRule
  \/ CallParseSection

SpecLine == InitLine /\ [][NextLine]_vars

----------------------------------------------------------------------------
(* A direct call of newOwner on one token, with a list of matchers *)

OwnerMatchers ==
  {"email", "team", "username", "gitlabUsername", "gitlabGroup", "gitlabRole", "reserved"}

MatcherLists == UNION { [1..n -> OwnerMatchers] : n \in 0..MaxMatchers }

OwnerTokens ==
  { Chars("@u"), Chars("@u.v"), Chars("@o/t"), Chars("@@r"), Chars("a@b.cc"),
    Chars("u"), Chars("@u.") }

\* what stands behind the owner token of a rule line: nothing, or another owner
OwnerTokenTails == { <<>>, Chars(" @u") }

\* the rule lines with the pattern a and one of the tokens as the first owner
OwnerTokenLines == { Chars("a ") \o tok \o tail : tok \in OwnerTokens, tail \in OwnerTokenTails }

InitOwner ==
  /\ InitPackage
  /\ opts \in { [ownerMatchers |-> mm, sectionSupport |-> FALSE] :
                  mm \in MatcherLists \cup {GitLabOwnerMatchers} }
  /\ hist = <<>>
  /\ lineNo = 0
  /\ rules = <<>>
  /\ sectionOwners = EmptySlice
  /\ heap = <<>>
  /\ status = "parsing"
  /\ err = Nil
  /\ ret = Returned(TRUE, <<>>)
  /\ query = NoQuery
  /\ line \in OwnerTokens \cup OwnerTokenLines
  /\ res = NoResult

\* what a call of newOwner returned
NewOwnerReturned(o) ==
  [NoResult EXCEPT !.called = TRUE, !.fn = "newOwner", !.owner = o.owner,
                   !.tried = o.tried, !.err = o.err]

CallNewOwner ==
  /\ ~res.called
  /\ res' = NewOwnerReturned(newOwner(line, opts.ownerMatchers))
  /\ UNCHANGED <<fileVars, line>>

NextOwner ==
  \/ CallNewOwner
  \/ CallParseRule

SpecOwner == InitOwner /\ [][NextOwner]_vars

----------------------------------------------------------------------------
(* A direct call of newPattern on one pattern, and of Rule.Match on a path *)

\* the segments patterns are written with, and those of the paths
PatternSegs == { Chars("a"), Chars("b"), Chars("*"), Chars("**"), Chars("?"), Chars("*b") }

PathSegs == { Chars("b"), Chars("ab") }

\* the segments joined with "/"
RECURSIVE JoinSegs(_)
JoinSegs(segs) ==
  IF Len(segs) = 0 THEN <<>>
  ELSE IF Len(segs) = 1 THEN segs[1]
  ELSE segs[1] \o <<"/">> \o JoinSegs(Tail(segs))

SegLists(S, n) == UNION { [1..k -> S] : k \in 1..n }

\* patterns of up to MaxPatternSegs segments, with or without a leading and a
\* trailing "/"
SegPatterns ==
  { (IF lead THEN <<"/">> ELSE <<>>) \o JoinSegs(segs) \o (IF trail THEN <<"/">> ELSE <<>>) :
      lead \in BOOLEAN, trail \in BOOLEAN, segs \in SegLists(PatternSegs, MaxPatternSegs) }

\* paths of up to MaxDepth segments, with or without a trailing "/"
SegPaths ==
  { JoinSegs(segs) \o (IF trail THEN <<"/">> ELSE <<>>) :
      trail \in BOOLEAN, segs \in SegLists(PathSegs, MaxDepth) }

\* short patterns and paths over a literal, the backslash and the metacharacters
EscapeAlphabet == {"a", "\\", "*", "?", "[", "]"}

EscapePatterns == UNION { [1..n -> EscapeAlphabet] : n \in 1..MaxEscapeLen }

EscapePaths == UNION { [1..n -> EscapeAlphabet] : n \in 1..MaxEscapePath }

InitPattern ==
  /\ InitPackage
  /\ opts = DefaultOptions
  /\ hist = <<>>
  /\ lineNo = 0
  /\ rules = <<>>
  /\ sectionOwners = EmptySlice
  /\ heap = <<>>
  /\ status = "parsing"
  /\ err = Nil
  /\ ret = Returned(TRUE, <<>>)
  /\ query = NoQuery
  /\ line \in SegPatterns
  /\ res = NoResult

InitEscape ==
  /\ InitPackage
  /\ opts = DefaultOptions
  /\ hist = <<>>
  /\ lineNo = 0
  /\ rules = <<>>
  /\ sectionOwners = EmptySlice
  /\ heap = <<>>
  /\ status = "parsing"
  /\ err = Nil
  /\ ret = Returned(TRUE, <<>>)
  /\ query = NoQuery
  /\ line \in EscapePatterns
  /\ res = NoResult

\* what a call of newPattern returned: the pattern (held in a Rule) and the error
NewPatternReturned(pat) ==
  [NoResult EXCEPT !.called = TRUE, !.fn = "newPattern",
                   !.rule = [NoRule EXCEPT !.pattern = pat], !.err = pat.err]

CallNewPattern ==
  /\ ~res.called
  /\ res' = NewPatternReturned(newPattern(line))
  /\ UNCHANGED <<fileVars, line>>

\* the path asked about and what Rule.Match returned for it
Matched(path, m) ==
  [asked |-> TRUE, path |-> path, found |-> m.match, rule |-> NoRule, err |-> m.err]

\* Rule.Match(path) on the rule of a pattern that compiled
CallRuleMatch(path) ==
  /\ res.called /\ res.fn = "newPattern" /\ res.err = Nil
  /\ ~query.asked
  /\ query' = Matched(path, RuleMatch(res.rule, path))
  /\ UNCHANGED <<opts, hist, lineNo, rules, sectionOwners, heap, status, err, ret, line, res,
                 pkgVars>>

NextPattern ==
  \/ CallNewPattern
  \/ \E path \in SegPaths : CallRuleMatch(path)

SpecPattern == InitPattern /\ [][NextPattern]_vars

NextEscape ==
  \/ CallNewPattern
  \/ \E path \in EscapePaths : CallRuleMatch(path)

SpecEscape == InitEscape /\ [][NextEscape]_vars

----------------------------------------------------------------------------
(* The command: printFileOwners on the Ruleset that ParseFile returned *)

\* Owner.String()
OwnerString(o) == IF o.Type = "email" THEN o.Value ELSE <<"@">> \o o.Value

\* the --owner filters (main has cut their leading "@") and the --unowned flag
CliFilters == { <<>>, <<Chars("u")>>, <<Chars("v"), Chars("w")>> }

CliOptions == [ownerFilters : CliFilters, showUnowned : BOOLEAN]

\* the text printed in the place of the owners of a file without owners
Unowned == Chars("(unowned)")

\* fmt.Fprintf(out, "%-70s  %s\n", path, ...): the path and the texts joined behind it
OutLine(path, texts) == [path |-> path, texts |-> texts]

\* filterMatch for the owner o
filterMatch(c, o) ==
  \/ Len(c.ownerFilters) = 0 /\ ~c.showUnowned
  \/ \E k \in 1..Len(c.ownerFilters) : c.ownerFilters[k] = o.Value

\* the loop that fills ownersToShow
RECURSIVE ownersToShow(_, _)
ownersToShow(c, owners) ==
  IF Len(owners) = 0 THEN <<>>
  ELSE (IF filterMatch(c, Head(owners)) THEN <<OwnerString(Head(owners))>> ELSE <<>>)
         \o ownersToShow(c, Tail(owners))

\* the last statement: owners to show are printed, none prints nothing
printOwners(path, shown) ==
  [out |-> IF Len(shown) > 0 THEN <<OutLine(path, shown)>> ELSE <<>>, err |-> Nil]

\* the file without owners: printed unless the output is filtered by owner
printUnowned(c, path) ==
  [out |-> IF Len(c.ownerFilters) = 0 \/ c.showUnowned
           THEN <<OutLine(path, <<Unowned>>)>> ELSE <<>>,
   err |-> Nil]

\* printFileOwners behind rule, err := ruleset.Match(path)
printMatched(c, h, path, m) ==
  IF m.err # Nil THEN [out |-> <<>>, err |-> m.err]
  ELSE IF ~m.found \/ IsNil(m.rule.Owners) THEN printUnowned(c, path)
  ELSE printOwners(path, ownersToShow(c, Deref(h, m.rule.Owners)))

\* c.printFileOwners(out, ruleset, path): what is written to out, and the error
printFileOwners(c, ruleset, h, path) == printMatched(c, h, path, RulesetMatch(ruleset, path))

\* the command's call and what it wrote
Printed(c, path, p) ==
  [asked |-> TRUE, path |-> path, found |-> FALSE, rule |-> NoRule, err |-> p.err,
   cli |-> c, out |-> p.out]

\* the command prints the owners of one file
PrintFileOwners(c, path) ==
  /\ status = "ok"
  /\ query' = Printed(c, path, printFileOwners(c, ret.rules, heap, path))
  /\ UNCHANGED <<opts, hist, lineNo, rules, sectionOwners, heap, status, err, ret, line, res,
                 pkgVars>>

NextCli ==
  \/ \E text \in FileLines : ScanLine(text)
  \/ ScanEnd
  \/ \E c \in CliOptions, path \in Paths : PrintFileOwners(c, path)

SpecCli == Init /\ [][NextCli]_vars

----------------------------------------------------------------------------
(* What the claims speak of, read off the input lines *)

Max(S) == CHOOSE x \in S : \A y \in S : y <= x

\* the first character of l that is not white space ("" when there is none)
FirstNonSpace(l) ==
  LET N == {k \in 1..Len(l) : ~isSpace(l[k])} IN
  IF N = {} THEN "" ELSE l[CHOOSE k \in N : \A j \in N : k <= j]

IsBlank(l) == \A k \in 1..Len(l) : isSpace(l[k])

IsComment(l) == FirstNonSpace(l) = "#"

IsSectionLine(l, o) == o.sectionSupport /\ FirstNonSpace(l) \in {"[", "^"}

IsRuleLine(l, o) == ~IsBlank(l) /\ ~IsComment(l) /\ ~IsSectionLine(l, o)

\* the owners a rule line declares itself
DeclaredOwners(l, o) ==
  LET pr == parseRule(TrimSpace(l), o, EmptySlice, <<>>) IN Deref(pr.heap, pr.rule.Owners)

\* the pattern a rule line is written with
DeclaredPattern(l, o) == parseRule(TrimSpace(l), o, EmptySlice, <<>>).rule.pattern.pattern

\* the owners a section line declares
SectionDeclared(l, o) == parseSection(TrimSpace(l), o).section.Owners

\* the number of the last section line before line k (0: none)
LastSectionBefore(k) ==
  LET S == {j \in 1..(k - 1) : IsSectionLine(hist[j], opts)} IN
  IF S = {} THEN 0 ELSE Max(S)

\* the numbers of the rule lines read so far
RuleLineNos == {k \in 1..Len(hist) : IsRuleLine(hist[k], opts)}

\* the line fails to parse
LineError(l, o) ==
  IF IsBlank(l) \/ IsComment(l) THEN Nil
  ELSE IF IsSectionLine(l, o) THEN parseSection(TrimSpace(l), o).err
  ELSE parseRule(TrimSpace(l), o, EmptySlice, <<>>).err

\* the indices of the rules of rs whose pattern matches path
Matching(rs, path) == {i \in 1..Len(rs) : patternMatch(rs[i].pattern, path)}

OwnersOf(h, r) == Deref(h, r.Owners)

----------------------------------------------------------------------------
(* The claims *)

\* C1: Ruleset.Match(p) returns the rule of greatest index whose pattern matches p,
\* and nil with a nil error when no rule's pattern matches p.
LastMatchWins ==
  query.asked =>
    LET M == Matching(ret.rules, query.path) IN
    /\ query.err = Nil
    /\ IF M = {} THEN ~query.found /\ query.rule = NoRule
       ELSE query.found /\ query.rule = ret.rules[Max(M)]

\* two rules with different owners match and a later rule does not
LastMatchWinsWitness ==
  /\ query.asked /\ query.found
  /\ LET M == Matching(ret.rules, query.path) IN
     /\ Cardinality(M) >= 2
     /\ Max(M) < Len(ret.rules)
     /\ \E i \in M : OwnersOf(heap, ret.rules[i]) # OwnersOf(heap, query.rule)

\* C2: when the last matching rule has no owners, Match returns that rule and never
\* an earlier matching rule that has owners.
OwnerlessRuleWins ==
  query.asked =>
    LET M == Matching(ret.rules, query.path) IN
    (M # {} /\ OwnersOf(heap, ret.rules[Max(M)]) = <<>>) =>
      /\ query.found
      /\ query.rule.LineNumber = ret.rules[Max(M)].LineNumber
      /\ OwnersOf(heap, query.rule) = <<>>

\* the last matching rule has no owners and an earlier matching rule has some
OwnerlessRuleWinsWitness ==
  /\ query.asked /\ query.found
  /\ OwnersOf(heap, query.rule) = <<>>
  /\ LET M == Matching(ret.rules, query.path) IN
     \E i \in M : i < Max(M) /\ OwnersOf(heap, ret.rules[i]) # <<>>

\* C3: with section support, a rule line that declares owners has exactly those, and
\* one that declares none has the owners of the last section line before it.
SectionInheritance ==
  opts.sectionSupport =>
    \A i \in 1..Len(rules) :
      LET k == rules[i].LineNumber IN
      k \in 1..Len(hist) =>
        LET d == DeclaredOwners(hist[k], opts)
            j == LastSectionBefore(k)
        IN IF d # <<>> THEN OwnersOf(heap, rules[i]) = d
           ELSE j > 0 => OwnersOf(heap, rules[i]) = SectionDeclared(hist[j], opts)

\* after a section with owners, one rule inherited them and one declared its own
SectionInheritanceWitness ==
  /\ opts.sectionSupport /\ status = "ok" /\ Len(ret.rules) = 2
  /\ LastSectionBefore(ret.rules[1].LineNumber) > 0
  /\ \E i \in 1..2 :
       /\ DeclaredOwners(hist[ret.rules[i].LineNumber], opts) = <<>>
       /\ OwnersOf(heap, ret.rules[i]) # <<>>
  /\ \E i \in 1..2 : DeclaredOwners(hist[ret.rules[i].LineNumber], opts) # <<>>

\* C4: no later line changes the owners of a rule already appended, and the rules
\* returned have the owners they had when they were appended.
OwnersFrozen ==
  [][ /\ \A i \in 1..Len(rules) :
           /\ i <= Len(rules')
           /\ OwnersOf(heap', rules'[i]) = OwnersOf(heap, rules[i])
      /\ status' = "ok" =>
           /\ Len(ret'.rules) = Len(rules')
           /\ \A i \in 1..Len(rules') :
                OwnersOf(heap', ret'.rules[i]) = OwnersOf(heap', rules'[i])
    ]_vars

\* a rule inherited the owners of a section, and a later section has other owners
OwnersFrozenWitness ==
  /\ status = "ok" /\ Len(ret.rules) > 0
  /\ \E i \in 1..Len(ret.rules) :
       LET k == ret.rules[i].LineNumber IN
       /\ DeclaredOwners(hist[k], opts) = <<>>
       /\ OwnersOf(heap, ret.rules[i]) # <<>>
       /\ \E j \in (k + 1)..Len(hist) :
            /\ IsSectionLine(hist[j], opts)
            /\ SectionDeclared(hist[j], opts) # OwnersOf(heap, ret.rules[i])

\* C5: a rule line without owners that follows a section line without owners has no
\* owners, also when an earlier section declared some.
EmptySectionClearsDefault ==
  opts.sectionSupport =>
    \A i \in 1..Len(rules) :
      LET k == rules[i].LineNumber
          j == LastSectionBefore(k)
      IN (/\ DeclaredOwners(hist[k], opts) = <<>>
          /\ j > 0
          /\ SectionDeclared(hist[j], opts) = <<>>) => rules[i].Owners.len = 0

\* a section with owners, then a section without, then a rule line without owners
EmptySectionClearsDefaultWitness ==
  /\ opts.sectionSupport /\ status = "ok"
  /\ \E i \in 1..Len(ret.rules) :
       LET k == ret.rules[i].LineNumber
           j == LastSectionBefore(k)
       IN /\ DeclaredOwners(hist[k], opts) = <<>>
          /\ j > 0
          /\ SectionDeclared(hist[j], opts) = <<>>
          /\ \E j0 \in 1..(j - 1) :
               IsSectionLine(hist[j0], opts) /\ SectionDeclared(hist[j0], opts) # <<>>

\* C6: a successful ParseFile returns one Rule per rule line, in the order of the
\* lines, each with the 1-based number of its physical line.
OneRulePerRuleLine ==
  status = "ok" =>
    /\ ~ret.nil
    /\ Len(ret.rules) = Cardinality(RuleLineNos)
    /\ \A i \in 1..Len(ret.rules) :
         LET k == ret.rules[i].LineNumber IN
         /\ k \in RuleLineNos
         /\ Cardinality({j \in RuleLineNos : j <= k}) = i
         /\ ret.rules[i].pattern.pattern = DeclaredPattern(hist[k], opts)

\* two rules, the second behind a line that yields no rule
OneRulePerRuleLineWitness ==
  /\ status = "ok" /\ Len(ret.rules) = 2
  /\ ret.rules[1].LineNumber = 1 /\ ret.rules[2].LineNumber = 3
  /\ ret.rules[1].pattern.pattern # ret.rules[2].pattern.pattern

\* C7: ParseFile fails exactly when a line fails to parse; it stops at the first such
\* line and returns nil and that line's error with its 1-based number.
FailFast ==
  /\ (status = "error") <=> (\E k \in 1..Len(hist) : LineError(hist[k], opts) # Nil)
  /\ status = "error" =>
       /\ ret.nil /\ ret.rules = <<>>
       /\ \A k \in 1..(Len(hist) - 1) : LineError(hist[k], opts) = Nil
       /\ err = AtLine(LineError(hist[Len(hist)], opts), Len(hist))
       /\ err.line = lineNo
  /\ status # "error" => err = Nil

\* the third line fails after two lines that gave a rule each
FailFastWitness ==
  /\ status = "error" /\ err.line = 3 /\ Len(rules) = 2

\* C8: a blank line or a line whose first non-space character is "#" yields no rule
\* and no error and leaves the inherited section owners as they were.
IgnoredLinesAreInert ==
  [][ (/\ hist' # hist
       /\ \/ IsBlank(hist'[Len(hist')])
          \/ IsComment(hist'[Len(hist')]))
      => /\ rules' = rules
         /\ status' = status /\ err' = err /\ ret' = ret
         /\ sectionOwners' = sectionOwners
         /\ OwnersOf(heap', [Owners |-> sectionOwners']) = OwnersOf(heap, [Owners |-> sectionOwners])
    ]_vars

\* an indented comment stands between a section with owners and a rule inheriting them
IgnoredLinesAreInertWitness ==
  /\ status = "ok" /\ Len(hist) = 3 /\ Len(ret.rules) = 1
  /\ IsSectionLine(hist[1], opts)
  /\ (IsComment(hist[2]) \/ IsBlank(hist[2])) /\ Len(hist[2]) > 0 /\ hist[2][1] # "#"
  /\ ret.rules[1].LineNumber = 3
  /\ OwnersOf(heap, ret.rules[1]) # <<>>
  /\ DeclaredOwners(hist[3], opts) = <<>>

\* C9: an invalid-owner-format error names the rejected token and reports the 1-based
\* column of the token's first character, however the token ends (stated for the
\* lines without surrounding white space, as ParseFile passes them).
InvalidOwnerPositionIsTokenStart ==
  (res.called /\ line = TrimSpace(line) /\ res.err.kind = "invalid owner format") =>
    LET p == res.err.pos
        n == Len(res.err.owner)
    IN /\ p > 1 /\ p + n - 1 <= Len(line)
       /\ SubSeq(line, p, p + n - 1) = res.err.owner
       /\ isWhitespace(line[p - 1])

\* the character a state of the rule parser does not accept
NotAllowed(ps, ch) ==
  /\ ch # "#"
  /\ IF ps.state = statePattern
     THEN ~(ch = "\\" \/ isWhitespace(ch) \/ isPatternChar(ch))
     ELSE ~(isWhitespace(ch) \/ isOwnersChar(ch))

\* C10: a character the parser state reached does not allow makes parseRule fail with
\* an unexpected-character error reporting that character and its 1-based column (in
\* the line without its surrounding white space, which the state machine runs over).
UnexpectedCharacterReported ==
  res.called =>
    LET t == TrimSpace(line) IN
    /\ \A i \in 0..(Len(t) - 1) :
         LET ps == ruleLoop(RuleScan0, line, SubSeq(t, 1, i), opts.ownerMatchers, 0) IN
         (ps.err = Nil /\ ~ps.stop /\ NotAllowed(ps, t[i + 1]))
           => res.err = ErrUnexpectedCharacter(t[i + 1], i + 1)
    /\ res.err.kind = "unexpected character" =>
         /\ res.err.pos \in 1..Len(t)
         /\ t[res.err.pos] = res.err.ch

\* the pattern was compiled and a character of the owners part is refused
UnexpectedCharacterReportedWitness ==
  /\ res.called
  /\ res.err.kind = "unexpected character"
  /\ res.rule.pattern.pattern # <<>>
  /\ res.err.pos > 2

\* a line as ParseFile passes it on: its first character is not white space
NoLeadingSpace(l) == Len(l) = 0 \/ ~isSpace(l[1])

PlainPatternChar(ch) == isPatternChar(ch) /\ ch # "\\"

\* the end of the pattern text that starts at l[k]: pattern characters, each of
\* them possibly behind a backslash, and white space behind a backslash
RECURSIVE PatternSpan(_, _)
PatternSpan(l, k) ==
  IF k > Len(l) THEN k - 1
  ELSE IF PlainPatternChar(l[k]) THEN PatternSpan(l, k + 1)
  ELSE IF /\ l[k] = "\\" /\ k < Len(l)
          /\ (isWhitespace(l[k + 1]) \/ PlainPatternChar(l[k + 1]))
       THEN PatternSpan(l, k + 2)
  ELSE k - 1

\* l is a pattern (l[1..n]), white space up to l[m], and the end or a "#"
IsPatternOnly(l, n, m) ==
  /\ n >= 1 /\ n = PatternSpan(l, 1) /\ m \in n..Len(l)
  /\ \A k \in (n + 1)..m : isWhitespace(l[k])
  /\ (m = Len(l) \/ l[m + 1] = "#")

\* C11: a trimmed line made of a pattern, optional white space and an optional "#"
\* comment parses without error into a Rule with that pattern, the trimmed comment
\* and no owners of its own (white space after the line is trimmed by parseRule).
PatternOnlyLineParses ==
  (res.called /\ res.fn = "parseRule" /\ NoLeadingSpace(line)) =>
    LET t == TrimSpace(line) IN
    \A n \in 1..Len(t) : \A m \in n..Len(t) :
      IsPatternOnly(t, n, m) =>
        /\ res.err = Nil
        /\ res.rule.pattern.pattern = SubSeq(t, 1, n)
        /\ res.rule.Comment = TrimSpace(SubSeq(t, m + 2, Len(t)))
        /\ Deref(res.heap, res.rule.Owners) = <<>>

\* a pattern with an escape, directly followed by a comment
PatternOnlyLineParsesWitness ==
  /\ res.called /\ res.fn = "parseRule" /\ NoLeadingSpace(line)
  /\ \E n \in 1..Len(line) :
       /\ IsPatternOnly(TrimSpace(line), n, n)
       /\ n < Len(TrimSpace(line))
       /\ \E k \in 1..n : line[k] = "\\"
  /\ res.err = Nil /\ Len(res.rule.Comment) > 0

\* C12: parseRule fails with "unexpected end of rule" exactly when the line holds no
\* pattern: it is empty or white space, or its first character that is not white
\* space is the "#".
EmptyPatternIsUnexpectedEnd ==
  (res.called /\ res.fn = "parseRule") =>
    LET t == TrimSpace(line) IN
    (Len(t) = 0 \/ t[1] = "#") <=> (res.err = ErrUnexpectedEnd)

\* the "#" is reached with an empty buffer and the comment is read
EmptyPatternIsUnexpectedEndWitness ==
  /\ res.called /\ res.fn = "parseRule"
  /\ Len(line) > 1 /\ line[1] = "#"
  /\ res.err = ErrUnexpectedEnd
  /\ Len(res.rule.Comment) > 0

\* the index of the first "#" of l (0: none)
FirstHash(l) ==
  LET H == {k \in 1..Len(l) : l[k] = "#"} IN
  IF H = {} THEN 0 ELSE CHOOSE k \in H : \A j \in H : k <= j

\* an error without the column it reports
Positionless(e) == [e EXCEPT !.pos = 0]

\* C13: a "#" that no backslash precedes ends the parsing of the line: nothing
\* behind it changes the error, the pattern or section header or the owners, the
\* "#" is not refused as a character, and the Comment is the rest of the line,
\* trimmed (lines without leading white space, parseRule and parseSection).
CommentCutsLine ==
  LET h == FirstHash(line)
      cut == SubSeq(line, 1, h)
      rest == SubSeq(line, h + 1, Len(line))
  IN (res.called /\ NoLeadingSpace(line) /\ h > 0 /\ (h = 1 \/ line[h - 1] # "\\")) =>
       /\ res.err.kind = "unexpected character" => res.err.pos < h
       /\ res.fn = "parseRule" =>
            LET p0 == parseRule(cut, opts, EmptySlice, <<>>) IN
            /\ Positionless(res.err) = Positionless(p0.err)
            /\ res.err = Nil =>
                 /\ res.rule.pattern = p0.rule.pattern
                 /\ Deref(res.heap, res.rule.Owners) = Deref(p0.heap, p0.rule.Owners)
                 /\ res.rule.Comment = TrimSpace(rest)
       /\ res.fn = "parseSection" =>
            LET s0 == parseSection(cut, opts) IN
            /\ Positionless(res.err) = Positionless(s0.err)
            /\ res.err = Nil =>
                 /\ res.section = [s0.section EXCEPT !.Comment = TrimSpace(rest)]

\* a section line with two owners, then a comment that reads like two more tokens
CommentCutsLineWitness ==
  /\ res.called /\ res.fn = "parseSection" /\ res.err = Nil
  /\ Len(res.section.Owners) = 2
  /\ res.section.Comment = <<"c", " ", "d">>
  /\ line[Len(line)] = " "

\* C14: in the pattern of a trimmed rule line, a white space, a "#" or a pattern
\* character behind an unescaped backslash is part of the pattern, with its
\* backslash: it neither ends the pattern nor starts a comment.
EscapedCharacterStaysInPattern ==
  (res.called /\ res.fn = "parseRule" /\ line = TrimSpace(line) /\ res.err = Nil) =>
    \A k \in 1..(Len(line) - 1) :
      (/\ \A j \in 1..(k - 1) : PlainPatternChar(line[j])
       /\ line[k] = "\\"
       /\ \/ isWhitespace(line[k + 1])
          \/ line[k + 1] = "#"
          \/ PlainPatternChar(line[k + 1]))
      => /\ Len(RawPattern(res.rule)) >= k + 1
         /\ SubSeq(RawPattern(res.rule), 1, k + 1) = SubSeq(line, 1, k + 1)

\* C20: RawPattern() of the Rule parsed from a line is the pattern text of the line
\* as it is written, backslashes included, whatever it compiles to (lines whose
\* pattern text ends at white space, at a "#" or at the end of the line).
RawPatternRoundTrip ==
  (res.called /\ res.fn = "parseRule" /\ NoLeadingSpace(line)) =>
    LET t == TrimSpace(line)
        n == PatternSpan(t, 1)
    IN (n >= 1 /\ (n = Len(t) \/ isWhitespace(t[n + 1]) \/ t[n + 1] = "#")) =>
         /\ res.rule.pattern.err = Nil
         /\ RawPattern(res.rule) = SubSeq(t, 1, n)

\* the raw pattern keeps an escape and a "/" that the compiled pattern does not hold
RawPatternRoundTripWitness ==
  /\ res.called /\ res.fn = "parseRule" /\ res.err = Nil
  /\ \E k \in 1..Len(RawPattern(res.rule)) : RawPattern(res.rule)[k] = "\\"
  /\ RawPattern(res.rule)[1] = "/"
  /\ Len(res.rule.pattern.elems) < Len(RawPattern(res.rule)) - 1

\* the places in the list mm of the matchers that match the token s
Hits(mm, s) == {k \in 1..Len(mm) : OwnerMatcherMatch(mm[k], s).err # ErrNoMatch}

Min(S) == CHOOSE x \in S : \A y \in S : x <= y

\* C15: newOwner returns what the first matcher of the list that matches the token
\* returns, and calls no matcher behind that one.
FirstMatcherWins ==
  (res.called /\ res.fn = "newOwner") =>
    LET mm == opts.ownerMatchers
        H == Hits(mm, line)
    IN H # {} =>
         /\ res.owner = OwnerMatcherMatch(mm[Min(H)], line).owner
         /\ res.err = OwnerMatcherMatch(mm[Min(H)], line).err
         /\ res.tried = Min(H)

\* the first matcher does not match, the second does, and a third would have
\* classified the token differently
FirstMatcherWinsWitness ==
  /\ res.called /\ res.fn = "newOwner" /\ res.err = Nil
  /\ res.tried = 2
  /\ \E k \in Hits(opts.ownerMatchers, line) :
       k > 2 /\ OwnerMatcherMatch(opts.ownerMatchers[k], line).owner # res.owner

\* the token is an email address, a team or a user name
IsOwnerKind(kind, s) ==
  CASE kind = "email" -> emailRegexp(s)
    [] kind = "team" -> teamRegexp(s)
    [] kind = "username" -> usernameRegexp(s)

\* C16: when no matcher of the list matches the token, newOwner fails with the
\* invalid-owner-format error that carries the token; so it does for an email, team
\* or user-name token when the list is made of the other two default matchers.
NoMatcherRejects ==
  (res.called /\ res.fn = "newOwner") =>
    LET mm == opts.ownerMatchers IN
    /\ Hits(mm, line) = {} =>
         /\ res.err = ErrInvalidOwnerFormat(line)
         /\ res.owner = NoOwner
    /\ \A kind \in {"email", "team", "username"} :
         (/\ IsOwnerKind(kind, line)
          /\ \A k \in 1..Len(mm) : mm[k] \in {"email", "team", "username"} \ {kind})
         => res.err = ErrInvalidOwnerFormat(line)

\* an email address is rejected by the list of the team and the user-name matcher
NoMatcherRejectsWitness ==
  /\ res.called /\ res.fn = "newOwner"
  /\ emailRegexp(line)
  /\ opts.ownerMatchers = <<"team", "username">>
  /\ res.err = ErrInvalidOwnerFormat(line)
  /\ res.tried = 2

\* the index of the first ch of l at or behind index k (0: none)
FirstAt(l, ch, k) ==
  LET S == {j \in k..Len(l) : l[j] = ch} IN IF S = {} THEN 0 ELSE Min(S)

\* the tokens white space separates in s
RECURSIVE Tokens(_)
Tokens(s) ==
  LET N == {k \in 1..Len(s) : ~isWhitespace(s[k])} IN
  IF N = {} THEN <<>>
  ELSE LET a == Min(N)
           E == {k \in a..Len(s) : isWhitespace(s[k])}
           b == IF E = {} THEN Len(s) ELSE Min(E) - 1
       IN <<SubSeq(s, a, b)>> \o Tokens(SubSeq(s, b + 1, Len(s)))

\* a section line read by its shape: "^", "[", the name, "]", then "[", the count
\* text, "]" if a "[" follows at once, then the owners, then "#" and the comment
SectionShape(l) ==
  LET o == IF Len(l) > 0 /\ l[1] = "^" THEN 1 ELSE 0
      c1 == FirstAt(l, "]", o + 2)
      hasCount == c1 > 0 /\ c1 < Len(l) /\ l[c1 + 1] = "["
      c2 == IF hasCount THEN FirstAt(l, "]", c1 + 2) ELSE c1
      tail == SubSeq(l, c2 + 1, Len(l))
      h == FirstHash(tail)
  IN [ opens |-> Len(l) > o /\ l[o + 1] = "[" /\ c1 > 0,
       optional |-> o = 1,
       name |-> SubSeq(l, o + 2, c1 - 1),
       hasCount |-> hasCount,
       closed |-> c2 > 0,
       count |-> SubSeq(l, c1 + 2, c2 - 1),
       owners |-> IF h = 0 THEN tail ELSE SubSeq(tail, 1, h - 1),
       comment |-> IF h = 0 THEN <<>> ELSE TrimSpace(SubSeq(tail, h + 1, Len(tail))) ]

\* the shape is written with a name of section characters, a count of digits and
\* owner tokens the matchers accept
IsWellFormedSection(sh, mm) ==
  /\ sh.opens /\ sh.closed
  /\ \A k \in 1..Len(sh.name) : isSectionChar(sh.name[k])
  /\ sh.hasCount => (Len(sh.count) > 0 /\ \A k \in 1..Len(sh.count) : sh.count[k] \in Digit)
  /\ \A k \in 1..Len(sh.owners) : isWhitespace(sh.owners[k]) \/ isOwnersChar(sh.owners[k])
  /\ \A k \in 1..Len(Tokens(sh.owners)) : newOwner(Tokens(sh.owners)[k], mm).err = Nil

\* C18: parseSection on a line of the shape ^[Name][N] owners # comment returns
\* ApprovalOptional true iff the line starts with "^", the Name between the first
\* brackets, ApprovalCount N (0 without [N]), the owners in the order of their
\* tokens and the trimmed Comment, without error.
SectionFieldsParsed ==
  (res.called /\ res.fn = "parseSection") =>
    LET sh == SectionShape(line)
        toks == Tokens(sh.owners)
    IN IsWellFormedSection(sh, opts.ownerMatchers) =>
         /\ res.err = Nil
         /\ res.section.ApprovalOptional = sh.optional
         /\ res.section.Name = sh.name
         /\ res.section.ApprovalCount = (IF sh.hasCount THEN Decimal(sh.count) ELSE 0)
         /\ res.section.Owners =
              [k \in 1..Len(toks) |-> newOwner(toks[k], opts.ownerMatchers).owner]
         /\ res.section.Comment = sh.comment

\* an optional section with a name holding a space, a count, two owners, a comment
SectionFieldsParsedWitness ==
  /\ res.called /\ res.fn = "parseSection" /\ res.err = Nil
  /\ IsWellFormedSection(SectionShape(line), opts.ownerMatchers)
  /\ res.section.ApprovalOptional
  /\ res.section.Name = <<"a", " ", "b">>
  /\ res.section.ApprovalCount = 10
  /\ Len(res.section.Owners) = 2
  /\ res.section.Owners[1].Type = "team" /\ res.section.Owners[2].Type = "username"
  /\ Len(res.section.Comment) > 0

\* the text writes an integer that is not negative: digits, possibly behind a "+",
\* or zeros behind a "-"
IsNonNegativeInteger(x) ==
  LET signed == Len(x) > 0 /\ x[1] \in {"+", "-"}
      ds == IF signed THEN Tail(x) ELSE x
  IN /\ Len(ds) > 0
     /\ \A k \in 1..Len(ds) : ds[k] \in Digit
     /\ (signed /\ x[1] = "-") => \A k \in 1..Len(ds) : ds[k] = "0"

\* C19: parseSection fails with the invalid-approval-count error whenever the text
\* between the approval-count brackets of a section line does not write an integer
\* that is not negative.
BadApprovalCountRejected ==
  (res.called /\ res.fn = "parseSection") =>
    LET sh == SectionShape(line) IN
    (/\ sh.opens /\ sh.hasCount /\ sh.closed
     /\ \A k \in 1..Len(sh.name) : isSectionChar(sh.name[k])
     /\ \A k \in 1..Len(sh.count) : sh.count[k] # "#"
     /\ ~IsNonNegativeInteger(sh.count))
    => res.err.kind = "invalid approval count"

\* the parseOptions a call with these options is to run with
ExpectedOptions(options) ==
  [ownerMatchers |-> IF options = <<>> THEN DefaultOwnerMatchers ELSE options[Len(options)],
   sectionSupport |-> FALSE]

\* the outcome st, e, rs of a call on lines is the one the options o give
ConsistentOutcome(lines, st, e, rs, o) ==
  /\ (st = "error") <=> (\E k \in 1..Len(lines) : LineError(lines[k], o) # Nil)
  /\ st = "error" =>
       /\ e = AtLine(LineError(lines[Len(lines)], o), Len(lines))
       /\ rs = <<>>
  /\ st # "error" =>
       /\ e = Nil
       /\ Len(rs) = Cardinality({k \in 1..Len(lines) : IsRuleLine(lines[k], o)})
       /\ \A i \in 1..Len(rs) :
            /\ rs[i].LineNumber \in 1..Len(lines)
            /\ OwnersOf(heap, rs[i]) = DeclaredOwners(lines[rs[i].LineNumber], o)

\* C17: a ParseFile call classifies the owners with the list given with
\* WithOwnerMatchers and with the default list when none is given, whatever the
\* calls before it were given; no call changes DefaultOwnerMatchers or the outcome
\* of a call that has returned.
MatchersArePerCall ==
  /\ pkgMatchers = DefaultOwnerMatchers
  /\ \A c \in 1..Len(calls) :
       IF calls[c].done
       THEN ConsistentOutcome(calls[c].lines, calls[c].status, calls[c].err,
                              calls[c].rules, ExpectedOptions(calls[c].options))
       ELSE /\ c = Len(calls)
            /\ opts = ExpectedOptions(calls[c].options)
            /\ ConsistentOutcome(hist, status, err,
                                 IF status = "parsing" THEN rules ELSE ret.rules, opts)

\* a call with the GitLab list, then a call without options on the same lines
\* that classifies an owner differently
MatchersArePerCallWitness ==
  /\ Len(calls) = 2 /\ status = "ok"
  /\ calls[1].done /\ calls[1].status = "ok"
  /\ calls[1].options = <<GitLabOwnerMatchers>> /\ calls[2].options = <<>>
  /\ calls[1].lines = hist /\ Len(ret.rules) > 0
  /\ OwnersOf(heap, calls[1].rules[1]) # OwnersOf(heap, ret.rules[1])

----------------------------------------------------------------------------
(* What the claims speak of, read off the pattern and the path *)

\* a pattern written with letters and "/" only
IsLiteralPattern(p) == \A k \in 1..Len(p) : p[k] \in Lower \cup {"/"}

HasInnerSlash(p) == \E k \in 1..(Len(p) - 1) : p[k] = "/"

EndsInSlash(p) == Len(p) > 0 /\ p[Len(p)] = "/"

\* the text of p between one leading and one trailing "/"
InnerText(p) ==
  LET lo == IF Len(p) > 0 /\ p[1] = "/" THEN 2 ELSE 1
      hi == IF Len(p) >= lo /\ p[Len(p)] = "/" THEN Len(p) - 1 ELSE Len(p)
  IN SubSeq(p, lo, hi)

\* the text t stands in path from offset s on
OccursAt(t, path, s) ==
  /\ s + Len(t) <= Len(path)
  /\ \A k \in 1..Len(t) : path[s + k] = t[k]

\* the offsets of path at which a segment starts
SegmentStarts(path) == {0} \cup {x \in 1..Len(path) : path[x] = "/"}

\* offset j of path is the end of the path or stands before a "/"
AtSegmentEnd(path, j) == j = Len(path) \/ (j < Len(path) /\ path[j + 1] = "/")

\* the literal pattern p matches path with its text at offset s
LiteralMatchAt(p, path, s) ==
  /\ OccursAt(InnerText(p), path, s)
  /\ IF EndsInSlash(p) THEN OccursAt(<<"/">>, path, s + Len(InnerText(p)))
     ELSE AtSegmentEnd(path, s + Len(InnerText(p)))

\* C21: a pattern with a "/" that is not its last character matches only from
\* offset 0 of the path; any other pattern matches from offset 0 or from behind
\* any "/" of the path (patterns written with letters and "/").
AnchoringDecidesStart ==
  (query.asked /\ res.fn = "newPattern" /\ IsLiteralPattern(line)) =>
    query.found =
      IF HasInnerSlash(line) THEN LiteralMatchAt(line, query.path, 0)
      ELSE \E s \in SegmentStarts(query.path) : LiteralMatchAt(line, query.path, s)

\* an unanchored pattern found below a parent directory, from behind a "/"
AnchoringDecidesStartWitness ==
  /\ query.asked /\ res.fn = "newPattern" /\ IsLiteralPattern(line)
  /\ ~HasInnerSlash(line) /\ query.found
  /\ ~LiteralMatchAt(line, query.path, 0)

\* p without its trailing "/"
WithoutTrailingSlash(p) == IF EndsInSlash(p) THEN SubSeq(p, 1, Len(p) - 1) ELSE p

\* the pattern p, compiled, matches path
PatternMatches(p, path) == RuleMatch([NoRule EXCEPT !.pattern = newPattern(p)], path).match

\* C22: a pattern ending in "/" matches a path only where the matched text is
\* followed by a "/": it matches exactly the paths in which the pattern without
\* its trailing "/" matches the part before some "/" of the path.
DirectoryOnlyNeedsSlash ==
  (query.asked /\ res.fn = "newPattern" /\ EndsInSlash(line)) =>
    /\ query.found =
         \E x \in 1..Len(query.path) :
           /\ query.path[x] = "/"
           /\ PatternMatches(WithoutTrailingSlash(line), SubSeq(query.path, 1, x - 1))
    /\ IsLiteralPattern(line) =>
         /\ query.path = InnerText(line) => ~query.found
         /\ OccursAt(InnerText(line) \o <<"/">>, query.path, 0) => query.found

\* "b/" asked about "b/", and found
DirectoryOnlyNeedsSlashWitness ==
  /\ query.asked /\ res.fn = "newPattern"
  /\ line = Chars("b/") /\ query.path = Chars("b/") /\ query.found

\* the paths q put below a path: empty, or of one or two segments
PathsBelow ==
  {<<>>} \cup { JoinSegs(segs) \o (IF trail THEN <<"/">> ELSE <<>>) :
                  trail \in BOOLEAN, segs \in SegLists(PathSegs, 2) }

\* C23: a directory-only pattern that matches the path p matches p + "/" + q
\* for every path q.
DirectoryMatchesContents ==
  (query.asked /\ res.fn = "newPattern" /\ res.rule.pattern.dirOnly /\ query.found) =>
    \A q \in PathsBelow :
      RuleMatch(res.rule, query.path \o <<"/">> \o q).match

\* a directory-only pattern with a wildcard found in a path of two segments
DirectoryMatchesContentsWitness ==
  /\ query.asked /\ res.fn = "newPattern" /\ res.rule.pattern.dirOnly /\ query.found
  /\ ~IsLiteralPattern(line)
  /\ \E x \in 2..(Len(query.path) - 1) : query.path[x] = "/"

\* C24: a pattern that is not directory-only matches only with its matched text
\* ending at the end of the path or before a "/", never on a longer segment name
\* that starts with the same characters (patterns written with letters and "/").
MatchEndsWithSegment ==
  (query.asked /\ res.fn = "newPattern" /\ IsLiteralPattern(line) /\ ~EndsInSlash(line)) =>
    (query.found =>
       \E s \in 0..Len(query.path) :
         /\ OccursAt(InnerText(line), query.path, s)
         /\ AtSegmentEnd(query.path, s + Len(InnerText(line))))

\* the pattern stands at the start of a longer segment name, and is not found
MatchEndsWithSegmentWitness ==
  /\ query.asked /\ res.fn = "newPattern" /\ IsLiteralPattern(line) /\ ~EndsInSlash(line)
  /\ \E s \in SegmentStarts(query.path) :
       /\ OccursAt(InnerText(line), query.path, s)
       /\ s + Len(InnerText(line)) < Len(query.path)
       /\ query.path[s + Len(InnerText(line)) + 1] \in Lower
  /\ ~query.found

\* the segments of s, split at every "/"
RECURSIVE SplitSegs(_)
SplitSegs(s) ==
  LET S == {x \in 1..Len(s) : s[x] = "/"} IN
  IF S = {} THEN <<s>>
  ELSE LET x == CHOOSE y \in S : \A z \in S : y <= z
       IN <<SubSeq(s, 1, x - 1)>> \o SplitSegs(SubSeq(s, x + 1, Len(s)))

\* the text t, all of it, is written by g: a "*" stands for any run of
\* characters, a "?" for one character, any other character for itself
RECURSIVE GlobSeg(_, _)
GlobSeg(g, t) ==
  IF Len(g) = 0 THEN Len(t) = 0
  ELSE IF g[1] = "*" THEN GlobSeg(Tail(g), t) \/ (Len(t) > 0 /\ GlobSeg(g, Tail(t)))
  ELSE Len(t) > 0 /\ (g[1] = "?" \/ g[1] = t[1]) /\ GlobSeg(Tail(g), Tail(t))

\* a pattern of letters, "?", single "*" and "/"
IsSingleStarPattern(p) ==
  /\ \A k \in 1..Len(p) : p[k] \in Lower \cup {"/", "*", "?"}
  /\ \A k \in 1..(Len(p) - 1) : ~(p[k] = "*" /\ p[k + 1] = "*")

\* segment by segment: the segments of the pattern p write the segments of path
\* from the i-th on, one each
SegmentsMatchAt(p, path, i) ==
  LET ps == SplitSegs(InnerText(p))
      qs == SplitSegs(path)
  IN /\ i + Len(ps) - 1 <= Len(qs)
     /\ \A k \in 1..Len(ps) : GlobSeg(ps[k], qs[i + k - 1])
     /\ EndsInSlash(p) => i + Len(ps) - 1 < Len(qs)

\* C25: a single "*" matches any run of characters and "?" exactly one
\* character, and neither matches a "/": a pattern of letters, "?" and single
\* "*" matches a path exactly when its segments write as many segments of the
\* path, one each.
WildcardsStayInSegment ==
  (query.asked /\ res.fn = "newPattern" /\ IsSingleStarPattern(line)) =>
    query.found =
      \E i \in 1..Len(SplitSegs(query.path)) :
        /\ HasInnerSlash(line) => i = 1
        /\ SegmentsMatchAt(line, query.path, i)

\* "*/b" asked about "ab/ab/b": not found, though found with "ab/ab" for the "*"
WildcardsStayInSegmentWitness ==
  /\ query.asked /\ res.fn = "newPattern"
  /\ line = Chars("*/b") /\ query.path = Chars("ab/ab/b") /\ ~query.found

\* segment by segment, with "**": the segments of ps from the k-th on write the
\* segments of qs from the i-th on; a "**" before the last segment stands for no
\* segment or for any number of them, a "**" as the last segment for all that
\* follows; a directory-only pattern (dir) leaves at least one segment unwritten
RECURSIVE SegsFrom(_, _, _, _, _)
SegsFrom(ps, k, qs, i, dir) ==
  IF k > Len(ps) THEN (dir => i <= Len(qs))
  ELSE IF ps[k] = <<"*", "*">> /\ k < Len(ps) THEN
    \E m \in i..(Len(qs) + 1) : SegsFrom(ps, k + 1, qs, m, dir)
  ELSE IF ps[k] = <<"*", "*">> THEN
    i <= Len(qs) /\ (dir => i < Len(qs))
  ELSE i <= Len(qs) /\ GlobSeg(ps[k], qs[i]) /\ SegsFrom(ps, k + 1, qs, i + 1, dir)

\* a pattern of letters, "?", "*" and "/" with a segment "**" before its last
\* segment, which is not "**"
HasInnerDoubleStar(p) ==
  LET ps == SplitSegs(InnerText(p)) IN
  /\ \A k \in 1..Len(p) : p[k] \in Lower \cup {"/", "*", "?"}
  /\ \E k \in 1..(Len(ps) - 1) : ps[k] = <<"*", "*">>
  /\ ps[Len(ps)] # <<"*", "*">>

\* C26: a "**" between segment boundaries matches no path segment or any number
\* of whole path segments: a pattern with such a "**" before its last segment
\* matches a path exactly when its other segments write segments of the path in
\* order from the first on, with whole segments left out where the "**" stands.
DoubleStarSpansSegments ==
  (query.asked /\ res.fn = "newPattern" /\ HasInnerDoubleStar(line)) =>
    query.found =
      SegsFrom(SplitSegs(InnerText(line)), 1, SplitSegs(query.path), 1, EndsInSlash(line))

\* "b/**/b" asked about "b/ab/ab/b": found, the "**" standing for two segments
DoubleStarSpansSegmentsWitness ==
  /\ query.asked /\ res.fn = "newPattern"
  /\ line = Chars("b/**/b") /\ query.path = Chars("b/ab/ab/b") /\ query.found

\* a pattern "d/**", d written with letters and "/"
EndsInDoubleStar(p) ==
  /\ Len(p) > 3
  /\ SubSeq(p, Len(p) - 2, Len(p)) = <<"/", "*", "*">>
  /\ IsLiteralPattern(SubSeq(p, 1, Len(p) - 3))

\* C27: a pattern ending in "/**" matches every path inside the directory it
\* names and not the path of the directory itself, and only from offset 0 of
\* the path.
TrailingDoubleStarMatchesInside ==
  (query.asked /\ res.fn = "newPattern" /\ EndsInDoubleStar(line)) =>
    query.found =
      OccursAt(InnerText(SubSeq(line, 1, Len(line) - 3)) \o <<"/">>, query.path, 0)

\* "b/b/**" asked about "b/b/ab/b", two segments inside the directory, and found
TrailingDoubleStarMatchesInsideWitness ==
  /\ query.asked /\ res.fn = "newPattern"
  /\ line = Chars("b/b/**") /\ query.path = Chars("b/b/ab/b") /\ query.found

\* the character at position i of p stands behind an odd number of backslashes
RECURSIVE IsEscapedAt(_, _)
IsEscapedAt(p, i) == i > 1 /\ p[i - 1] = "\\" /\ ~IsEscapedAt(p, i - 1)

Metacharacters == {"*", "?", "[", "]"}

\* every metacharacter of p stands behind a backslash
AllMetaEscaped(p) == \A i \in 1..Len(p) : p[i] \in Metacharacters => IsEscapedAt(p, i)

\* p from position i on without the backslashes that escape a character (a
\* backslash at the end of p escapes none)
RECURSIVE UnescapedFrom(_, _)
UnescapedFrom(p, i) ==
  IF i > Len(p) THEN <<>>
  ELSE IF p[i] = "\\" /\ ~IsEscapedAt(p, i) /\ i < Len(p) THEN UnescapedFrom(p, i + 1)
  ELSE <<p[i]>> \o UnescapedFrom(p, i + 1)

\* C28: a metacharacter behind a backslash matches only itself: a pattern without
\* "/" whose metacharacters are all escaped matches the one path that is its
\* text without the escaping backslashes.
EscapedMetaIsLiteral ==
  (query.asked /\ res.fn = "newPattern" /\ AllMetaEscaped(line)
     /\ \A i \in 1..Len(line) : line[i] # "/"
     /\ \A j \in 1..Len(query.path) : query.path[j] # "/") =>
    query.found = (query.path = UnescapedFrom(line, 1))

\* a pattern with an escaped metacharacter asked about its own text, and found
EscapedMetaIsLiteralWitness ==
  /\ query.asked /\ res.fn = "newPattern" /\ AllMetaEscaped(line)
  /\ \E i \in 1..Len(line) : line[i] \in Metacharacters
  /\ Len(query.path) > 1 /\ query.found

\* p has a "[", not escaped, with no "]" that is not escaped behind it
HasOpenClass(p) ==
  \E i \in 1..Len(p) :
    /\ p[i] = "[" /\ ~IsEscapedAt(p, i)
    /\ \A j \in (i + 1)..Len(p) : ~(p[j] = "]" /\ ~IsEscapedAt(p, j))

\* C29: compiling a pattern with a "[" that is never closed fails with the
\* unterminated-character-class error; the error is the compiler's, and matching
\* a path against a compiled pattern returns none.
UnterminatedClassFailsAtCompile ==
  /\ (res.called /\ res.fn = "newPattern") =>
       /\ HasOpenClass(line) => res.err = ErrUnterminatedClass
       /\ res.err # Nil => (HasOpenClass(line) /\ ~query.asked)
  /\ (query.asked /\ res.fn = "newPattern") => (query.err = Nil /\ ~HasOpenClass(line))

\* a pattern with a "]" and a "[" that is still open has been given to the compiler
UnterminatedClassFailsAtCompileWitness ==
  /\ res.called /\ res.fn = "newPattern" /\ HasOpenClass(line)
  /\ \E j \in 1..Len(line) : line[j] = "]"
  /\ res.err = ErrUnterminatedClass

\* C30: a line is parsed as a section header only when section support is enabled and
\* its first character that is not white space is "[" or "^": it then gives no rule,
\* and either parseSection's error or the section's owners to inherit. With section
\* support disabled such a line is parsed as a rule line and makes ParseFile fail with
\* the unexpected-character error for that character at position 1; every other line
\* that is not skipped is parsed as a rule and leaves the inherited owners alone.
SectionHeaderNeedsSupport ==
  [][ hist' # hist =>
      LET l == hist'[Len(hist')]
          c == FirstNonSpace(l)
      IN
      /\ (c \in {"[", "^"} /\ opts.sectionSupport) =>
           /\ rules' = rules
           /\ LET sec == parseSection(TrimSpace(l), opts) IN
              IF sec.err # Nil
              THEN status' = "error" /\ err' = AtLine(sec.err, lineNo')
              ELSE /\ status' = "parsing" /\ err' = Nil
                   /\ Deref(heap', sectionOwners') = sec.section.Owners
      /\ (c \in {"[", "^"} /\ ~opts.sectionSupport) =>
           /\ status' = "error"
           /\ err' = AtLine(ErrUnexpectedCharacter(c, 1), lineNo')
           /\ rules' = rules /\ sectionOwners' = sectionOwners
      /\ (c \notin {"[", "^", "#", ""}) =>
           /\ sectionOwners' = sectionOwners
           /\ LET pr == parseRule(TrimSpace(l), opts, sectionOwners, heap) IN
              IF pr.err # Nil
              THEN status' = "error" /\ err' = AtLine(pr.err, lineNo')
              ELSE status' = "parsing" /\ Len(rules') = Len(rules) + 1
    ]_vars

\* without section support, an indented section header on the second line has made
\* ParseFile fail at position 1 after the first line gave a rule
SectionHeaderNeedsSupportWitness ==
  /\ status = "error" /\ ~opts.sectionSupport
  /\ Len(hist) = 2 /\ Len(rules) = 1
  /\ hist[2][1] = " " /\ FirstNonSpace(hist[2]) = "["
  /\ err = AtLine(ErrUnexpectedCharacter("[", 1), 2)

----------------------------------------------------------------------------
(* What the claims speak of, read off the rule line *)

\* the text of l before its first white space
RECURSIVE FirstToken(_)
FirstToken(l) ==
  IF Len(l) = 0 \/ isWhitespace(Head(l)) THEN <<>> ELSE <<Head(l)>> \o FirstToken(Tail(l))

\* the pattern of l is written with "|", "{" or "}" among letters
HasPipeOrBrace(l) ==
  /\ \E k \in 1..Len(FirstToken(l)) : l[k] \in {"|", "{", "}"}
  /\ \A k \in 1..Len(FirstToken(l)) : l[k] \in {"|", "{", "}"} \/ isAlphanumeric(l[k])

\* C31: a rule line whose pattern contains "|", "{" or "}" parses without error, and
\* its pattern is the text as written.
PipeAndBracesInPattern ==
  (res.called /\ res.fn = "parseRule" /\ line \in PipeLines /\ HasPipeOrBrace(line)) =>
    /\ res.err = Nil
    /\ res.rule.pattern.pattern = FirstToken(line)

\* l is made of white space only
AllWhitespace(l) == \A k \in 1..Len(l) : isWhitespace(l[k])

\* the lines that give l when white space is added before and behind them
Unpadded(l) ==
  { SubSeq(l, i, j) : i \in 1..(Len(l) + 1), j \in 0..Len(l) } \cap
  { SubSeq(l, i, j) : i \in { x \in 1..(Len(l) + 1) : AllWhitespace(SubSeq(l, 1, x - 1)) },
                      j \in { y \in 0..Len(l) : AllWhitespace(SubSeq(l, y + 1, Len(l))) } }

\* the pattern, the owners and the comment of a returned Rule
RuleFields(pr) ==
  [pattern |-> pr.rule.pattern, owners |-> Deref(pr.heap, pr.rule.Owners),
   comment |-> pr.rule.Comment]

\* C32: when a rule line parses without error, parseRule returns the same pattern,
\* owners and comment, without error, for that line with white space added before
\* and behind it.
PaddingChangesNothing ==
  (res.called /\ res.fn = "parseRule") =>
    \A l \in Unpadded(line) :
      LET pr == parseRule(l, opts, EmptySlice, <<>>) IN
      pr.err = Nil =>
        /\ res.err = Nil
        /\ RuleFields(res) = RuleFields(pr)

\* parseRule on l has given the pattern compiler an empty buffer: it has compiled a
\* pattern (it left the Pattern state, or ended in it without error) and that is empty
CompiledEmpty(l, o) ==
  LET ps == ruleScan(l, o.ownerMatchers) IN
  /\ ps.state = stateOwners \/ ps.err = Nil
  /\ ps.pattern.pattern = <<>>

\* C33: every Rule that ParseFile has built or returned has a raw pattern that is not
\* empty, and for no line of the file, the failing one included, has parseRule given
\* the pattern compiler an empty buffer.
PatternNeverEmpty ==
  /\ \A i \in 1..Len(rules) : Len(RawPattern(rules[i])) > 0
  /\ \A i \in 1..Len(ret.rules) : Len(RawPattern(ret.rules[i])) > 0
  /\ \A k \in 1..Len(hist) :
       IsRuleLine(hist[k], opts) => ~CompiledEmpty(TrimSpace(hist[k]), opts)

\* ParseFile has returned two rules, one from an indented line with a comment, the
\* other from a pattern with white space behind it and no owner
PatternNeverEmptyWitness ==
  /\ status = "ok" /\ Len(ret.rules) = 2
  /\ \E k \in 1..Len(hist) : hist[k] = Chars(" a  @v #c")
  /\ \E k \in 1..Len(hist) : hist[k] = Chars("d/ ")

\* the tokens of l: the runs of characters that are not white space, left to right
RECURSIVE Fields(_)
Fields(l) ==
  IF Len(l) = 0 THEN <<>>
  ELSE IF isWhitespace(Head(l)) THEN Fields(Tail(l))
  ELSE LET tok == FirstToken(l) IN <<tok>> \o Fields(SubSeq(l, Len(tok) + 1, Len(l)))

\* the owner tokens of a rule line: its tokens behind the pattern
OwnerFields(l) == Tail(Fields(l))

\* l is a pattern of plain pattern characters and owner tokens that the matchers of
\* mm accept, with white space between and around them and nothing else
IsOwnersLine(l, mm) ==
  /\ Len(Fields(l)) > 0
  /\ \A k \in 1..Len(Fields(l)[1]) : PlainPatternChar(Fields(l)[1][k])
  /\ \A n \in 1..Len(OwnerFields(l)) :
       /\ \A k \in 1..Len(OwnerFields(l)[n]) : isOwnersChar(OwnerFields(l)[n][k])
       /\ newOwner(OwnerFields(l)[n], mm).err = Nil

\* C34: the Owners of a parsed rule are its owner tokens as newOwner classifies them,
\* one for each token and in the order of the line, whatever runs of spaces and tabs
\* stand between the tokens and behind the last.
OwnersFollowTokens ==
  (res.called /\ res.fn = "parseRule" /\ IsOwnersLine(line, opts.ownerMatchers)) =>
    /\ res.err = Nil
    /\ Deref(res.heap, res.rule.Owners) =
         [n \in 1..Len(OwnerFields(line)) |->
            newOwner(OwnerFields(line)[n], opts.ownerMatchers).owner]

\* a rule with a team and then a user name, a space and a tab between them and
\* white space behind, has been parsed
OwnersFollowTokensWitness ==
  /\ res.called /\ res.fn = "parseRule" /\ res.err = Nil
  /\ line = Chars("a  @o/t \t@u\t ")
  /\ Deref(res.heap, res.rule.Owners) = <<Owner(Chars("o/t"), "team"), Owner(Chars("u"), "username")>>

\* the command has printed for a path
HasPrinted == query.asked /\ "out" \in DOMAIN query

\* the rule of the returned Ruleset that decides for path: the last that matches
DecidingRules(path) ==
  { i \in Matching(ret.rules, path) : \A j \in Matching(ret.rules, path) : j <= i }

\* C35: without an owner filter the command prints the file with "(unowned)" when no
\* rule matches it or when the rule that matches it has no owners, a rule without
\* owners outside of any section included.
UnownedIsPrinted ==
  (HasPrinted /\ Len(query.cli.ownerFilters) = 0) =>
    ((\/ Matching(ret.rules, query.path) = {}
      \/ \E i \in DecidingRules(query.path) : OwnersOf(heap, ret.rules[i]) = <<>>)
       => query.out = <<OutLine(query.path, <<Unowned>>)>>)

\* t starts with n plain pattern characters, an escaped backslash and a white space
EscapedBackslashThenSpace(t, n) ==
  /\ n + 3 <= Len(t)
  /\ \A k \in 1..n : PlainPatternChar(t[k])
  /\ t[n + 1] = "\\" /\ t[n + 2] = "\\"
  /\ isWhitespace(t[n + 3])

\* C36: in the Pattern state a backslash escapes the one character behind it: the
\* white space behind an escaped backslash is not escaped and ends the pattern, which
\* is the text before it.
EscapeCoversOneCharacter ==
  (res.called /\ res.fn = "parseRule") =>
    \A n \in 0..Len(TrimSpace(line)) :
      (EscapedBackslashThenSpace(TrimSpace(line), n) /\ res.err = Nil) =>
        RawPattern(res.rule) = SubSeq(TrimSpace(line), 1, n + 2)

\* the text of l before its first "#"
RECURSIVE BeforeHash(_)
BeforeHash(l) ==
  IF Len(l) = 0 \/ Head(l) = "#" THEN <<>> ELSE <<Head(l)>> \o BeforeHash(Tail(l))

\* u does not start with a [Name] part, behind a "^" or not
NoNamePart(u) ==
  LET v == IF Len(u) > 0 /\ u[1] = "^" THEN Tail(u) ELSE u IN
  \/ Len(v) = 0 \/ v[1] # "["
  \/ \A j \in 2..Len(v) : v[j] # "]"

\* a "[" of u has no "]" behind it
OpenBracket(u) ==
  \E k \in 1..Len(u) : u[k] = "[" /\ \A j \in (k + 1)..Len(u) : u[j] # "]"

\* C37: parseSection returns an error for a section line (a line that starts with "["
\* or "^", as ParseFile hands them on) without a [Name] part and for one in which a
\* "[" is not closed by a "]" before the end of the line or the "#".
MalformedSectionRejected ==
  (res.called /\ res.fn = "parseSection") =>
    LET u == BeforeHash(TrimSpace(line)) IN
    (/\ Len(TrimSpace(line)) > 0 /\ isSectionStart(TrimSpace(line)[1])
     /\ NoNamePart(u) \/ OpenBracket(u)) => res.err # Nil

FailingMatchers(mm, s) ==
  { k \in 1..Len(mm) :
      /\ \A j \in 1..(k - 1) : OwnerMatcherMatch(mm[j], s).err = ErrNoMatch
      /\ OwnerMatcherMatch(mm[k], s).err \notin {Nil, ErrNoMatch} }

\* C39: when a matcher returns an error that is not ErrNoMatch, newOwner returns that
\* error and no owner and has called no matcher behind that one; the parse of a line
\* with that token fails with that error and the column of the token (wrapped when
\* white space follows the token, by its text when the token ends the line), not with
\* an invalid-owner-format error.
MatcherErrorStops ==
  LET mm == opts.ownerMatchers IN
  /\ (res.called /\ res.fn = "newOwner") =>
       \A k \in FailingMatchers(mm, line) :
         /\ res.err = OwnerMatcherMatch(mm[k], line).err
         /\ res.owner = NoOwner
         /\ res.tried = k
  /\ (res.called /\ res.fn = "parseRule") =>
       \A tok \in OwnerTokens, tail \in OwnerTokenTails :
         line = Chars("a ") \o tok \o tail =>
           \A k \in FailingMatchers(mm, tok) :
             /\ res.err.kind # "invalid owner format"
             /\ res.err = IF tail = <<>>
                          THEN AtPositionText(OwnerMatcherMatch(mm[k], tok).err, 3)
                          ELSE AtPosition(OwnerMatcherMatch(mm[k], tok).err, 3)

\* the second of three matchers has failed on the first owner of a line, and the
\* third would have accepted the token
MatcherErrorStopsWitness ==
  /\ res.called /\ res.fn = "parseRule"
  /\ line = Chars("a @@r @u")
  /\ opts.ownerMatchers = <<"email", "reserved", "gitlabRole">>
  /\ res.err = AtPosition(ErrReserved, 3)

====
